---- MODULE Spec2Model ----
(***************************************************************************)
(* Render-fulfilment pipeline of the intermediary API: the token ledger    *)
(* (app/services/token_service.py), the submission handlers                *)
(* (app/routers/shotstack.py), the ARQ render worker (worker.py) and the   *)
(* transfer jobs (app/services/background_transfer.py).                    *)
(*                                                                         *)
(* Processes.  A request handler runs in an API server process, a job      *)
(* function runs in the ARQ worker process.  The Supabase store, the Redis *)
(* queue and the storage bucket are shared by all of them.  A ledger       *)
(* operation is a sequence of separate store requests (select, update,     *)
(* insert) with no transaction around them, so the store sees the requests *)
(* of different processes in any order.                                    *)
(*                                                                         *)
(* Specifications.                                                         *)
(*   LedgerSpec    the ledger under arbitrary callers                      *)
(*   Spec          one POST /render request end to end, with failing       *)
(*                 store, queue, network and worker process                *)
(*   RaceSpec      two POST /render requests of one user, nothing fails    *)
(*   SubmitSpec    a POST /render and a POST /batch-render request         *)
(*   CollideSpec   POST /render requests whose uuid4 values may coincide   *)
(*   TransferSpec  the three transfer paths of one rendered job, the        *)
(*                 endpoints that list its video and the missing-URL sweep *)
(*   PollSpec      the same, the auto-transfer job started at any attempt  *)
(*   PollFairSpec  PollSpec with a worker that runs the jobs in its queue  *)
(*   SweepSpec     the auto-transfer job and the hourly missing-URL sweep  *)
(*                 of one rendered job, with no client request             *)
(*   ExpireSpec    the same over the days, with the expiration sweep and   *)
(*                 the cleanup of table renders                            *)
(*   MeasureSpec   extract_total_duration over the timelines               *)
(*   ResolveSpec   extract_total_duration over timelines with aliases      *)
(*   PriceSpec     calculate_tokens_for_duration over the durations        *)
(*   DestinationSpec  POST /render requests with and without destinations  *)
(*   StatusSpec    one POST /render request and the GET /job/{job_id}      *)
(*                 requests of its owner and of another user               *)
(*   BatchStatusSpec  one POST /batch-render request and the               *)
(*                 GET /batch/{batch_id}/status requests for it            *)
(***************************************************************************)
EXTENDS Integers, Sequences, FiniteSets, Bags, TLC

\* ------------------------------------------------------------------ bounds
MaxBalance == 3        \* largest balance an account starts with
MaxAmount  == 2        \* largest amount of one ledger call in LedgerSpec
MaxCalls   == 3        \* ledger calls made in one LedgerSpec behaviour
MaxBatch   == 2        \* most items in one batch request

Users    == {"u1", "u2"}
Handlers == {"h1", "h2"}     \* requests in flight, each served by an API server process
JobOrder == <<"j1", "j2", "j3">>   \* the identifiers uuid4 returns, in the order it returns them
Jobs     == {JobOrder[i] : i \in 1..Len(JobOrder)}
                             \* a job's execution in the ARQ worker process is
                             \* named by its identifier
Procs    == Handlers \cup Jobs
Paths    == {"auto", "transfer", "ensure"}   \* queue keys auto_transfer_<id>, transfer_<id>, ensure_<id>

VARIABLES
    credit_balance,      \* table credit_balance: user -> balance, domain = users with a row
    token_transactions,  \* table token_transactions: bag of rows
    frame,               \* per process: the ledger call it is executing
    calls,               \* ledger calls started so far (bounded by MaxCalls)
    initial_balance,     \* credit_balance at Init
    consumed,            \* user -> sum of the amounts of consume_tokens calls that returned True
    added,               \* user -> sum of the amounts of add_tokens calls that returned True
    version,             \* user -> number of balance updates the store has applied
    faulted,             \* a store, queue or network request has failed
    reliable,            \* no store, queue or network request fails in this behaviour
    charged,             \* job -> tokens consume_tokens took for it (calls that returned True)
    charges,             \* job -> number of consume_tokens calls for it that returned True
    refunded,            \* job -> tokens add_tokens gave back for it (calls that returned True)
    refunds,             \* job -> number of refund calls for it that returned True
    hpc,                 \* handler -> position in its endpoint function
    hreq,                \* handler -> the request it serves and its locals
    used_ids,            \* job identifiers uuid4 has returned
    arq_job,             \* job -> "none" | "queued" | "running" (Redis job key, in-progress key)
    job_try,             \* job -> times the worker has started it (Redis retry key)
    job_data,            \* job -> payload stored at enqueue
    arq_result,          \* job -> result stored by the worker
    wpc,                 \* job -> position of the worker in render_video_job
    renders,             \* table renders: job -> rows with that job_id
    created,             \* job -> renders the external renderer has created for it
    render_state,        \* job -> status the renderer reports for its render
    tkey,                \* path -> job -> state of the queue key of the transfer job
    tpc,                 \* path -> job -> position of the transfer job
    tresult,             \* path -> job -> status of the result the transfer job returned
    attempt,             \* job -> `attempt` in the payload of its auto-transfer job
    gcs_object,          \* job -> the months under which the bucket holds an object of the job
    downloads,           \* path -> job -> downloads from the renderer's CDN started
    uploads,             \* path -> job -> uploads to the bucket completed
    found,               \* job -> what was in the bucket when the auto-transfer job probed it
    month,               \* the calendar month of the clock (_generate_gcs_path reads it)
    tpath,               \* path -> job -> month of the gcs_path transfer_to_gcs generated
    resched,             \* job -> the last call of reschedule_auto_transfer for it
    pollers,             \* job -> the most auto-transfer jobs of it in the queue or run at one time
    queried,             \* job -> what the last status request of its auto-transfer job came to
    links,               \* job -> the last answer of GET /videos/{job_id}
    batch_videos,        \* job -> its entry in the last answer of GET /batch/{batch_id}/videos
    job_status,          \* caller -> job -> the last answer of GET /job/{job_id} to the caller
    batch_status,        \* handler -> the last answer of GET /batch/{batch_id}/status for its batch
    day,                 \* the clock, in days
    deleted              \* the rows deleted from table renders, each with the day of its deletion

\* The ledger tables and their history, without the call frames, and the
\* environment of a behaviour: its failure mode and the month of its clock.
books == <<credit_balance, token_transactions, calls, initial_balance,
           consumed, added, version, reliable, month, day, deleted, charged, charges,
           refunded, refunds>>
ledgerVars == <<books, frame, faulted>>
handlerVars == <<hpc, hreq, used_ids>>
queueVars == <<arq_job, job_try, job_data, arq_result>>
workerVars == <<wpc, renders, created, render_state>>
copyVars == <<gcs_object, downloads, uploads, found, tpath>>
answerVars == <<links, batch_videos, job_status, batch_status>>
transferVars == <<tkey, tpc, tresult, attempt, resched, pollers, queried, copyVars, answerVars>>

vars == <<ledgerVars, handlerVars, queueVars, workerVars, transferVars>>

\* The answers a store request can get: TRUE it is served, FALSE it raises.
StoreAnswers == IF reliable THEN {TRUE} ELSE BOOLEAN

\* ------------------------------------------------------------ token ledger
NoFrame == [pc |-> "idle", op |-> "none", user |-> "u1", amount |-> 0,
            current_balance |-> 0, new_balance |-> 0, ret |-> "none",
            why |-> "none", seen |-> 0, job |-> "none"]

\* get_user_tokens: the balance of the row, 0 when the user has no row,
\* 0 when the select raised.
get_user_tokens(u, storeOk) ==
    IF storeOk /\ u \in DOMAIN credit_balance THEN credit_balance[u] ELSE 0

\* consume_tokens without its balance check.
insufficient_unchecked(current, amount) == FALSE

\* A balance check that lets a call through that is one token short.
insufficient_by_two(current, amount) == current + 1 < amount

\* The balance check of consume_tokens.
insufficient(current, amount) == current < amount

\* A process enters consume_tokens / add_tokens.
ledger_call(p, op, u, amount, j) ==
    /\ frame[p].pc \in {"idle", "done"}
    /\ frame' = [frame EXCEPT ![p] = [NoFrame EXCEPT !.pc = "select", !.op = op,
                                          !.user = u, !.amount = amount,
                                          !.job = j]]

\* consume_tokens line 36-43 / add_tokens line 84-85: read the balance,
\* check it (consume only) and compute the new balance.
ledger_select(p) ==
    /\ frame[p].pc = "select"
    /\ \E storeOk \in StoreAnswers :
         /\ LET f   == frame[p]
                cur == get_user_tokens(f.user, storeOk)
            IN
             IF f.op = "consume" /\ insufficient(cur, f.amount)
             THEN frame' = [frame EXCEPT ![p].pc = "done", ![p].ret = "false",
                                         ![p].why = "insufficient",
                                         ![p].current_balance = cur,
                                         ![p].seen = version[f.user]]
             ELSE frame' = [frame EXCEPT ![p].pc = "update",
                                         ![p].current_balance = cur,
                                         ![p].new_balance =
                                             IF f.op = "consume" THEN cur - f.amount
                                                                 ELSE cur + f.amount,
                                         ![p].seen = version[f.user]]
         /\ faulted' = (faulted \/ ~storeOk)
    /\ UNCHANGED <<books, handlerVars, queueVars, workerVars, transferVars>>

\* consume_tokens line 46-52 / add_tokens line 88-94: write the new balance.
\* The update raises, or matches no row (empty data), or is applied.
ledger_update(p) ==
    /\ frame[p].pc = "update"
    /\ LET f == frame[p] IN
       \/ /\ ~reliable
          /\ frame' = [frame EXCEPT ![p].pc = "done", ![p].ret = "false",
                                    ![p].why = "update_raised"]
          /\ faulted' = TRUE
          /\ UNCHANGED <<credit_balance, version>>
       \/ /\ f.user \notin DOMAIN credit_balance
          /\ frame' = [frame EXCEPT ![p].pc = "done", ![p].ret = "false",
                                    ![p].why = "no_row"]
          /\ UNCHANGED <<credit_balance, version, faulted>>
       \/ /\ f.user \in DOMAIN credit_balance
          /\ credit_balance' = [credit_balance EXCEPT ![f.user] = f.new_balance]
          /\ version' = [version EXCEPT ![f.user] = @ + 1]
          /\ frame' = [frame EXCEPT ![p].pc = "insert"]
          /\ UNCHANGED faulted
    /\ UNCHANGED <<token_transactions, calls, initial_balance, consumed, added,
                   reliable, month, day, deleted, charged, charges, refunded, refunds>>
    /\ UNCHANGED <<handlerVars, queueVars, workerVars, transferVars>>

\* The bookkeeping of a ledger call that returns True.
returns_true(p) ==
    LET f == frame[p] IN
    /\ frame' = [frame EXCEPT ![p].pc = "done", ![p].ret = "true"]
    /\ consumed' = IF f.op = "consume"
                   THEN [consumed EXCEPT ![f.user] = @ + f.amount] ELSE consumed
    /\ added' = IF f.op = "add"
                THEN [added EXCEPT ![f.user] = @ + f.amount] ELSE added
    /\ charged' = IF f.op = "consume" /\ f.job \in Jobs
                  THEN [charged EXCEPT ![f.job] = @ + f.amount] ELSE charged
    /\ charges' = IF f.op = "consume" /\ f.job \in Jobs
                  THEN [charges EXCEPT ![f.job] = @ + 1] ELSE charges
    /\ refunded' = IF f.op = "add" /\ f.job \in Jobs
                   THEN [refunded EXCEPT ![f.job] = @ + f.amount] ELSE refunded
    /\ refunds' = IF f.op = "add" /\ f.job \in Jobs
                  THEN [refunds EXCEPT ![f.job] = @ + 1] ELSE refunds

\* consume_tokens line 55-76 / add_tokens line 97-117: append the
\* transaction row and return.  An insert that returns no data is logged
\* and the call still returns True; an insert that raises makes the call
\* return False although the balance has been written.
ledger_insert(p) ==
    /\ frame[p].pc = "insert"
    /\ LET f   == frame[p]
           row == [user |-> f.user,
                   amount |-> IF f.op = "consume" THEN 0 - f.amount ELSE f.amount,
                   balance_before |-> f.current_balance,
                   balance_after |-> f.new_balance]
       IN
       \/ /\ token_transactions' = token_transactions (+) SetToBag({row})
          /\ returns_true(p)
          /\ UNCHANGED faulted
       \/ /\ ~reliable
          /\ UNCHANGED token_transactions
          /\ returns_true(p)
          /\ faulted' = TRUE
       \/ /\ ~reliable
          /\ UNCHANGED <<token_transactions, consumed, added, charged, charges,
                         refunded, refunds>>
          /\ faulted' = TRUE
          /\ frame' = [frame EXCEPT ![p].pc = "done", ![p].ret = "false",
                                    ![p].why = "insert_raised"]
    /\ UNCHANGED <<credit_balance, calls, initial_balance, version, reliable, month,
                   day, deleted>>
    /\ UNCHANGED <<handlerVars, queueVars, workerVars, transferVars>>

\* ------------------------------------------------------------ initial state
NoRequest == [kind |-> "none", user |-> "u1", tokens_needed |-> 0, valid |-> TRUE,
              job_id |-> "none", items |-> <<>>, next |-> 0, job_ids |-> {},
              destinations |-> {},
              timeline |-> [shape |-> "not_dict", tracks |-> <<>>],
              duration_seconds |-> 0]
NoJobData == [user_id |-> "u1", tokens_consumed |-> 0, valid |-> TRUE,
              destinations |-> {}]

\* No call of reschedule_auto_transfer has been made.
NoReschedule == [attempt |-> 0, next_attempt |-> 0, delay |-> 0]

\* No answer has been given.  video_url is 0 for null, else the month in
\* the path of the URL (the rest of the path is fixed by the job).
NoAnswer == [answered |-> FALSE, success |-> FALSE, video_url |-> 0,
             transfer_status |-> "none"]

\* GET /job/{job_id} has not been answered.  `state` is what the queue
\* held for the job when the answer was given.
NoStatus == [answered |-> FALSE, status |-> "none", error |-> "none", state |-> "none"]

\* GET /batch/{batch_id}/status has not been answered.  `enqueued` are the
\* members of the batch the queue had taken when the answer was given,
\* `waiting` those of them that had no result yet.
NoBatchStatus == [answered |-> FALSE, batch_status |-> "none", total_jobs |-> 0,
                  completed_jobs |-> 0, failed_jobs |-> 0,
                  enqueued |-> {}, waiting |-> {}]

\* No request is being served.
InitRequests ==
    /\ hpc = [h \in Handlers |-> "idle"]
    /\ hreq = [h \in Handlers |-> NoRequest]

\* Everything but the account rows, the failure mode and the requests.
InitTables ==
    /\ day = 0
    /\ token_transactions = EmptyBag
    /\ frame = [p \in Procs |-> NoFrame]
    /\ calls = 0
    /\ initial_balance = credit_balance
    /\ consumed = [u \in Users |-> 0]
    /\ added = [u \in Users |-> 0]
    /\ version = [u \in Users |-> 0]
    /\ faulted = FALSE
    /\ charged = [j \in Jobs |-> 0]
    /\ charges = [j \in Jobs |-> 0]
    /\ refunded = [j \in Jobs |-> 0]
    /\ refunds = [j \in Jobs |-> 0]
    /\ used_ids = {}
    /\ arq_job = [j \in Jobs |-> "none"]
    /\ job_try = [j \in Jobs |-> 0]
    /\ job_data = [j \in Jobs |-> NoJobData]
    /\ arq_result = [j \in Jobs |-> "none"]
    /\ wpc = [j \in Jobs |-> "none"]
    /\ renders = [j \in Jobs |-> <<>>]
    /\ created = [j \in Jobs |-> 0]
    /\ render_state = [j \in Jobs |-> "none"]
    /\ tkey = [k \in Paths |-> [j \in Jobs |-> "none"]]
    /\ tpc = [k \in Paths |-> [j \in Jobs |-> "none"]]
    /\ tresult = [k \in Paths |-> [j \in Jobs |-> "none"]]
    /\ attempt = [j \in Jobs |-> 0]
    /\ gcs_object = [j \in Jobs |-> {}]
    /\ downloads = [k \in Paths |-> [j \in Jobs |-> 0]]
    /\ uploads = [k \in Paths |-> [j \in Jobs |-> 0]]
    /\ found = [j \in Jobs |-> "none"]
    /\ month = 1
    /\ deleted = {}
    /\ tpath = [k \in Paths |-> [j \in Jobs |-> 0]]
    /\ resched = [j \in Jobs |-> NoReschedule]
    /\ pollers = [j \in Jobs |-> 0]
    /\ queried = [j \in Jobs |-> "none"]
    /\ links = [j \in Jobs |-> NoAnswer]
    /\ batch_videos = [j \in Jobs |-> NoAnswer]
    /\ job_status = [c \in Users |-> [j \in Jobs |-> NoStatus]]
    /\ batch_status = [h \in Handlers |-> NoBatchStatus]

\* Everything but the account rows and the failure mode.
InitRest == InitRequests /\ InitTables

\* --------------------------------------------------- LedgerSpec: the ledger
\* The ledger under its two callers: consume_tokens from the request
\* handlers, add_tokens (refund) from the worker.
LedgerInit ==
    /\ \E b \in 0..MaxBalance :
         credit_balance \in {[u \in {"u1"} |-> b], [u \in Users |-> b]}
    /\ reliable = FALSE
    /\ InitRest

consume_tokens(p) ==
    /\ p \in Handlers
    /\ calls < MaxCalls
    /\ \E u \in Users, amount \in 1..MaxAmount : ledger_call(p, "consume", u, amount, "none")
    /\ calls' = calls + 1
    /\ UNCHANGED <<credit_balance, token_transactions, initial_balance,
                   consumed, added, version, reliable, month, day, deleted, faulted,
                   charged, charges, refunded, refunds>>
    /\ UNCHANGED <<handlerVars, queueVars, workerVars, transferVars>>

add_tokens(p) ==
    /\ p \in Jobs
    /\ calls < MaxCalls
    /\ \E u \in Users, amount \in 1..MaxAmount : ledger_call(p, "add", u, amount, "none")
    /\ calls' = calls + 1
    /\ UNCHANGED <<credit_balance, token_transactions, initial_balance,
                   consumed, added, version, reliable, month, day, deleted, faulted,
                   charged, charges, refunded, refunds>>
    /\ UNCHANGED <<handlerVars, queueVars, workerVars, transferVars>>

LedgerCallers == Handlers \cup {"j1"}

LedgerNext ==
    \E p \in LedgerCallers :
        \/ consume_tokens(p)
        \/ add_tokens(p)
        \/ ledger_select(p)
        \/ ledger_update(p)
        \/ ledger_insert(p)

LedgerSpec == LedgerInit /\ [][LedgerNext]_vars

\* ------------------------------------------------- submission: create_render
Durations == {30, 90}  \* seconds extract_total_duration returns for the timelines sent
MaxTries  == 3         \* WorkerSettings.max_tries

\* A price of one token per started-and-finished minute.
calculate_tokens_rounding_down(duration_seconds) ==
    LET duration_minutes == duration_seconds \div 60
    IN  IF duration_minutes > 1 THEN duration_minutes ELSE 1

\* calculate_tokens_for_duration: max(1, ceil(duration_seconds / 60)).
calculate_tokens_for_duration(duration_seconds) ==
    LET duration_minutes == (duration_seconds + 59) \div 60
    IN  IF duration_minutes > 1 THEN duration_minutes ELSE 1

\* arq's enqueue_job stores the job unless a job or a result is already
\* kept under the identifier; it then returns None.
can_enqueue(j) == arq_job[j] = "none" /\ arq_result[j] = "none"

\* uuid.uuid4(): an identifier it has not returned before.
uuid4 == JobOrder[Cardinality(used_ids) + 1]

\* The 402 answer placed after the enqueue of the job.
reject_after_enqueue(h, kind, tokens_needed) ==
    /\ hpc' = [hpc EXCEPT ![h] = "rejected"]
    /\ hreq' = [hreq EXCEPT ![h] = [NoRequest EXCEPT !.kind = kind,
                                                     !.tokens_needed = tokens_needed]]
    /\ IF Jobs # used_ids
       THEN /\ arq_job' = [arq_job EXCEPT ![uuid4] = "queued"]
            /\ used_ids' = used_ids \cup {uuid4}
       ELSE UNCHANGED <<arq_job, used_ids>>
    /\ UNCHANGED <<job_try, job_data, arq_result>>

\* The 402 answer of create_render (line 245-249) and of create_batch_render
\* (line 756-760): the handler raises before it has done anything.
reject(h, kind, tokens_needed) ==
    /\ hpc' = [hpc EXCEPT ![h] = "rejected"]
    /\ hreq' = [hreq EXCEPT ![h] = [NoRequest EXCEPT !.kind = kind,
                                                     !.tokens_needed = tokens_needed]]
    /\ UNCHANGED <<used_ids, queueVars>>

\* DestinationService.get_default_destinations: the providers of the
\* destinations it returns, the renderer's CDN alone.
get_default_destinations == {"shotstack"}

\* The `destinations` of the requests: none, and lists of one destination
\* by its provider.
NoDestinations == {}
DestinationInputs == {NoDestinations, {"s3"}, {"googlecloudstorage"}}

\* create_render line 260-275 (create_batch_render line 788-796): the
\* providers of output.destinations of the job.  No destinations in the
\* request: the default ones.  Else those of the request, extended by the
\* default ones whose provider is googlecloudstorage when the request has
\* none of that provider.
resolve_destinations(destinations) ==
    IF destinations = NoDestinations
    THEN get_default_destinations
    ELSE IF "googlecloudstorage" \in destinations
    THEN destinations
    ELSE destinations \cup {d \in get_default_destinations : d = "googlecloudstorage"}

\* The timelines of the requests made: an empty one, for which
\* extract_total_duration returns 0, and one of each duration.
Timelines == {[empty |-> TRUE, d |-> 0]} \cup {[empty |-> FALSE, d |-> x] : x \in Durations}

\* create_render line 231-288: read the balance, price the timeline, answer
\* 402 when the balance is short, else take a job identifier out of `ids`
\* and build the job payload.  The payload is valid for the worker when its
\* timeline is not empty (the output always holds the destinations).  The
\* request carries one of destination_inputs as its `destinations`.
submit_request(h, ids, destination_inputs) ==
    /\ hpc[h] = "idle"
    /\ \E storeOk \in StoreAnswers, timeline \in Timelines,
          destinations \in destination_inputs :
         LET user_tokens   == get_user_tokens("u1", storeOk)
             tokens_needed == calculate_tokens_for_duration(timeline.d)
         IN  /\ faulted' = (faulted \/ ~storeOk)
             /\ IF user_tokens < tokens_needed
                THEN reject(h, "single", tokens_needed)
                ELSE /\ \E job_id \in ids :
                          /\ hreq' = [hreq EXCEPT ![h] =
                                [NoRequest EXCEPT !.kind = "single",
                                                  !.tokens_needed = tokens_needed,
                                                  !.valid = ~timeline.empty,
                                                  !.job_id = job_id,
                                                  !.destinations =
                                                      resolve_destinations(destinations)]]
                          /\ used_ids' = used_ids \cup {job_id}
                     /\ hpc' = [hpc EXCEPT ![h] = "enqueue"]
                     /\ UNCHANGED queueVars
    /\ UNCHANGED <<books, frame, workerVars, transferVars>>

\* A request without `destinations`.
submit(h, ids) == submit_request(h, ids, {NoDestinations})

\* create_render with the identifier uuid4 returns.
create_render(h) ==
    /\ Jobs # used_ids
    /\ submit(h, {uuid4})

\* create_render for a request with or without `destinations`.
create_render_to(h) ==
    /\ Jobs # used_ids
    /\ submit_request(h, {uuid4}, DestinationInputs)

\* create_render line 290-298: enqueue the job under its identifier, then
\* enter consume_tokens whatever enqueue_job returned.  An enqueue that
\* raises ends the request with a 500.
create_render_enqueue(h) ==
    /\ hpc[h] = "enqueue"
    /\ LET r == hreq[h]
           j == r.job_id
       IN
       \/ /\ ~reliable
          /\ hpc' = [hpc EXCEPT ![h] = "error"]
          /\ faulted' = TRUE
          /\ UNCHANGED <<frame, queueVars>>
       \/ /\ IF can_enqueue(j)
             THEN /\ arq_job' = [arq_job EXCEPT ![j] = "queued"]
                  /\ job_data' = [job_data EXCEPT ![j] =
                         [user_id |-> r.user, tokens_consumed |-> r.tokens_needed,
                          valid |-> r.valid, destinations |-> r.destinations]]
             ELSE UNCHANGED <<arq_job, job_data>>
          /\ ledger_call(h, "consume", r.user, r.tokens_needed, j)
          /\ hpc' = [hpc EXCEPT ![h] = "consume"]
          /\ UNCHANGED <<faulted, job_try, arq_result>>
    /\ UNCHANGED <<books, hreq, used_ids, workerVars, transferVars>>

\* UsageService.log_render_request: the row it inserts.  The store sets
\* created_at to the time of the insert and is_expired to false.
QueuedRow == [status |-> "queued", shotstack_render_id |-> FALSE, video_url |-> 0,
              created_at |-> day, is_expired |-> FALSE]

\* create_render line 300-317: consume_tokens has returned (its result is
\* not looked at); record the submission row (a failed insert is logged and
\* ignored) and answer.
create_render_log(h) ==
    /\ hpc[h] = "consume"
    /\ frame[h].pc = "done"
    /\ LET j == hreq[h].job_id IN
       \/ /\ renders' = [renders EXCEPT ![j] = Append(@, QueuedRow)]
          /\ UNCHANGED faulted
       \/ /\ ~reliable
          /\ faulted' = TRUE
          /\ UNCHANGED renders
    /\ hpc' = [hpc EXCEPT ![h] = "accepted"]
    /\ frame' = [frame EXCEPT ![h] = NoFrame]
    /\ UNCHANGED <<books, hreq, used_ids, queueVars, wpc, created, render_state,
                   transferVars>>

\* ------------------------------------------ submission: create_batch_render
\* An item of a batch: whether it has the keys 'timeline' and 'output', and
\* the duration of its timeline.
Items == [timeline : BOOLEAN, output : BOOLEAN, d : Durations]
BatchInputs == UNION {[1..n -> Items] : n \in 0..MaxBatch}

\* create_batch_render line 732-746: the tokens of the items that have a
\* timeline.
RECURSIVE total_tokens(_)
total_tokens(items) ==
    IF items = <<>> THEN 0
    ELSE (IF Head(items).timeline
          THEN calculate_tokens_for_duration(Head(items).d) ELSE 0)
         + total_tokens(Tail(items))

\* create_batch_render line 693-766 (create_batch_render_array line 957-1008
\* has the same steps): parse the list, answer 400 when it is empty, price
\* it, read the balance and answer 402 when the balance is short.
create_batch_render(h) ==
    /\ hpc[h] = "idle"
    /\ \E renders_list \in BatchInputs, storeOk \in StoreAnswers :
         LET needed      == total_tokens(renders_list)
             user_tokens == get_user_tokens("u1", storeOk)
         IN
         IF renders_list = <<>>
         THEN /\ hpc' = [hpc EXCEPT ![h] = "error"]
              /\ hreq' = [hreq EXCEPT ![h] = [NoRequest EXCEPT !.kind = "batch"]]
              /\ UNCHANGED <<faulted, used_ids, queueVars>>
         ELSE /\ faulted' = (faulted \/ ~storeOk)
              /\ IF user_tokens < needed
                 THEN reject(h, "batch", needed)
                 ELSE /\ hpc' = [hpc EXCEPT ![h] = "batch_item"]
                      /\ hreq' = [hreq EXCEPT ![h] =
                             [NoRequest EXCEPT !.kind = "batch",
                                               !.tokens_needed = needed,
                                               !.items = renders_list,
                                               !.next = 1]]
                      /\ UNCHANGED <<used_ids, queueVars>>
    /\ UNCHANGED <<books, frame, workerVars, transferVars>>

\* create_batch_render line 769-831, one turn of the loop: an item without
\* timeline or output is skipped; any other is enqueued under
\* <batch id>_<index> with its own price and gets a submission row (a
\* failed insert is logged and ignored).  An enqueue that raises ends the
\* request with a 500.
batch_enqueue_item(h) ==
    /\ hpc[h] = "batch_item"
    /\ hreq[h].next <= Len(hreq[h].items)
    /\ LET r    == hreq[h]
           item == r.items[r.next]
       IN
       IF ~item.timeline \/ ~item.output
       THEN /\ hreq' = [hreq EXCEPT ![h].next = @ + 1]
            /\ UNCHANGED <<hpc, used_ids, queueVars, renders, faulted>>
       ELSE /\ Jobs # used_ids
            /\ \/ /\ ~reliable
                  /\ hpc' = [hpc EXCEPT ![h] = "error"]
                  /\ faulted' = TRUE
                  /\ UNCHANGED <<hreq, used_ids, queueVars, renders>>
               \/ /\ IF can_enqueue(uuid4)
                     THEN /\ arq_job' = [arq_job EXCEPT ![uuid4] = "queued"]
                          /\ job_data' = [job_data EXCEPT ![uuid4] =
                                 [user_id |-> r.user,
                                  tokens_consumed |-> calculate_tokens_for_duration(item.d),
                                  valid |-> TRUE,
                                  destinations |-> resolve_destinations(NoDestinations)]]
                     ELSE UNCHANGED <<arq_job, job_data>>
                  /\ used_ids' = used_ids \cup {uuid4}
                  /\ hreq' = [hreq EXCEPT ![h].next = @ + 1,
                                          ![h].job_ids = @ \cup {uuid4}]
                  /\ \/ /\ renders' = [renders EXCEPT ![uuid4] = Append(@, QueuedRow)]
                        /\ UNCHANGED faulted
                     \/ /\ ~reliable
                        /\ faulted' = TRUE
                        /\ UNCHANGED renders
                  /\ UNCHANGED <<hpc, job_try, arq_result>>
    /\ UNCHANGED <<books, frame, wpc, created, render_state, transferVars>>

\* create_batch_render line 833-834: after the loop, enter consume_tokens
\* with the total priced before the loop.
create_batch_render_consume(h) ==
    /\ hpc[h] = "batch_item"
    /\ hreq[h].next > Len(hreq[h].items)
    /\ ledger_call(h, "consume", hreq[h].user, hreq[h].tokens_needed, "none")
    /\ hpc' = [hpc EXCEPT ![h] = "batch_consume"]
    /\ UNCHANGED <<books, faulted, hreq, used_ids, queueVars, workerVars, transferVars>>

\* create_batch_render line 836-845: consume_tokens has returned (its
\* result is not looked at); answer.
create_batch_render_answer(h) ==
    /\ hpc[h] = "batch_consume"
    /\ frame[h].pc = "done"
    /\ hpc' = [hpc EXCEPT ![h] = "accepted"]
    /\ frame' = [frame EXCEPT ![h] = NoFrame]
    /\ UNCHANGED <<books, faulted, hreq, used_ids, queueVars, workerVars, transferVars>>

\* ------------------------------------------- render worker: render_video_job
\* UsageService.update_render_request(job_id, status, shotstack_render_id):
\* every row with the job_id takes the fields.
update_rows(rows, status, render_id) ==
    [i \in 1..Len(rows) |->
        [rows[i] EXCEPT !.status = status,
                        !.shotstack_render_id = (@ \/ render_id)]]

\* arq starts a queued job.  The try counter is incremented first; past
\* max_tries the job is given up with a failure result and the function is
\* not called.  Otherwise render_video_job runs to its first await
\* (line 109-145): a payload without timeline or output raises ValueError,
\* which the handler at line 278 turns into a refund.
run_job(j) ==
    /\ arq_job[j] = "queued"
    /\ IF job_try[j] + 1 > MaxTries
       THEN /\ arq_result' = [arq_result EXCEPT ![j] = "abandoned"]
            /\ arq_job' = [arq_job EXCEPT ![j] = "none"]
            /\ job_try' = [job_try EXCEPT ![j] = 0]
            /\ UNCHANGED <<wpc, frame>>
       ELSE /\ arq_job' = [arq_job EXCEPT ![j] = "running"]
            /\ job_try' = [job_try EXCEPT ![j] = @ + 1]
            /\ UNCHANGED arq_result
            /\ IF job_data[j].valid
               THEN /\ wpc' = [wpc EXCEPT ![j] = "post"]
                    /\ UNCHANGED frame
               ELSE /\ wpc' = [wpc EXCEPT ![j] = "refund"]
                    /\ ledger_call(j, "add", job_data[j].user_id,
                                   job_data[j].tokens_consumed, j)
    /\ UNCHANGED <<books, faulted, handlerVars, job_data, renders, created,
                   render_state, transferVars>>

\* What POST /render can come to.  The renderer answers 201 or another
\* status; when requests can fail, the 201 body may be unreadable
\* (response.json() raises), the request may time out before or after the
\* renderer has accepted it, or the transport may raise.
RenderOutcomes ==
    IF reliable THEN {"201", "non201"}
    ELSE {"201", "non201", "201_unreadable", "timeout", "timeout_accepted", "exception"}

\* render_video_job line 144-180 and 215-222, 248-253, 278-283: the answer
\* of the renderer to POST /render.  On 201 a render exists and the rows of
\* the job take status 'completed' and the render id (a failed update is
\* logged and ignored).  Any other status, a timeout or an exception
\* enters refund_tokens_for_failed_job with the payload's tokens_consumed.
shotstack_post(j) ==
    /\ wpc[j] = "post"
    /\ \E outcome \in RenderOutcomes :
         /\ IF outcome \in {"201", "201_unreadable", "timeout_accepted"}
            THEN /\ created' = [created EXCEPT ![j] = @ + 1]
                 /\ render_state' = [render_state EXCEPT ![j] = "rendering"]
            ELSE UNCHANGED <<created, render_state>>
         /\ IF outcome = "201"
            THEN /\ wpc' = [wpc EXCEPT ![j] = "schedule"]
                 /\ \/ /\ renders' = [renders EXCEPT ![j] = update_rows(@, "completed", TRUE)]
                       /\ UNCHANGED faulted
                    \/ /\ ~reliable
                       /\ faulted' = TRUE
                       /\ UNCHANGED renders
                 /\ UNCHANGED frame
            ELSE /\ wpc' = [wpc EXCEPT ![j] = "refund"]
                 /\ ledger_call(j, "add", job_data[j].user_id,
                                job_data[j].tokens_consumed, j)
                 /\ UNCHANGED <<renders, faulted>>
    /\ UNCHANGED <<books, handlerVars, queueVars, transferVars>>

\* arq stores the result of the job and deletes the job and its try counter.
finish_job(j, status) ==
    /\ arq_result' = [arq_result EXCEPT ![j] = status]
    /\ arq_job' = [arq_job EXCEPT ![j] = "none"]
    /\ job_try' = [job_try EXCEPT ![j] = 0]
    /\ wpc' = [wpc EXCEPT ![j] = "none"]
    /\ frame' = [frame EXCEPT ![j] = NoFrame]
    /\ UNCHANGED job_data

\* render_video_job line 185-209: enqueue auto_transfer_when_ready_job
\* under the key auto_transfer_<job id>, which the queue drops when the key
\* is taken (a failure is logged and ignored), and close the pool.
schedule_auto_transfer(j) ==
    /\ wpc[j] = "schedule"
    /\ wpc' = [wpc EXCEPT ![j] = "return"]
    /\ \/ /\ IF tkey["auto"][j] = "none"
             THEN /\ tkey' = [tkey EXCEPT !["auto"][j] = "queued"]
                  /\ attempt' = [attempt EXCEPT ![j] = 1]
                  /\ pollers' = [pollers EXCEPT ![j] = IF @ > 1 THEN @ ELSE 1]
             ELSE UNCHANGED <<tkey, attempt, pollers>>
          /\ UNCHANGED faulted
       \/ /\ ~reliable
          /\ faulted' = TRUE
          /\ UNCHANGED <<tkey, attempt, pollers>>
    /\ UNCHANGED <<books, frame, handlerVars, queueVars, renders, created, render_state>>
    /\ UNCHANGED <<tpc, tresult, resched, queried, copyVars, answerVars>>

\* render_video_job line 213: return the success result.
return_success(j) ==
    /\ wpc[j] = "return"
    /\ finish_job(j, "success")
    /\ UNCHANGED <<books, faulted, handlerVars, renders, created, render_state,
                   transferVars>>

\* render_video_job line 224-246, 255-276, 285-306: the refund call has
\* returned; write status 'failed' to the rows of the job (a failed update
\* is logged and ignored) and return the failure result.
return_failed(j) ==
    /\ wpc[j] = "refund"
    /\ frame[j].pc = "done"
    /\ \/ /\ renders' = [renders EXCEPT ![j] = update_rows(@, "failed", FALSE)]
          /\ UNCHANGED faulted
       \/ /\ ~reliable
          /\ faulted' = TRUE
          /\ UNCHANGED renders
    /\ finish_job(j, "failed")
    /\ UNCHANGED <<books, handlerVars, created, render_state, transferVars>>

\* The worker process dies while it runs the job (kill, crash, restart).
\* The job stays in the queue and is delivered again (retry_jobs).
worker_killed(j) ==
    /\ arq_job[j] = "running"
    /\ arq_job' = [arq_job EXCEPT ![j] = "queued"]
    /\ wpc' = [wpc EXCEPT ![j] = "none"]
    /\ frame' = [frame EXCEPT ![j] = NoFrame]
    /\ UNCHANGED <<books, faulted, handlerVars, job_try, job_data, arq_result,
                   renders, created, render_state, transferVars>>

\* --------------------------- Spec: one POST /render request from end to end
\* The request h1, its job j1, and a store, queue, network and worker
\* process that can fail.
Init ==
    /\ \E b \in 0..MaxBalance : credit_balance = [u \in {"u1"} |-> b]
    /\ reliable = FALSE
    /\ InitRest

Next ==
    \/ \E h \in {"h1"} :
          \/ create_render(h)
          \/ create_render_enqueue(h)
          \/ create_render_log(h)
    \/ \E p \in {"h1", "j1"} :
          \/ ledger_select(p)
          \/ ledger_update(p)
          \/ ledger_insert(p)
    \/ \E j \in {"j1"} :
          \/ run_job(j)
          \/ shotstack_post(j)
          \/ schedule_auto_transfer(j)
          \/ return_success(j)
          \/ return_failed(j)
          \/ worker_killed(j)

Spec == Init /\ [][Next]_vars

\* ------------------------- RaceSpec: two POST /render requests, no failures
\* Two requests of user u1 served at the same time and the worker running
\* their jobs; every store, queue and network request is served and the
\* worker process stays up.
RaceInit ==
    /\ \E b \in 1..MaxAmount : credit_balance = [u \in {"u1"} |-> b]
    /\ reliable = TRUE
    /\ InitRest

RaceNext ==
    \/ \E h \in Handlers :
          \/ create_render(h)
          \/ create_render_enqueue(h)
          \/ create_render_log(h)
    \/ \E p \in Handlers \cup {"j1", "j2"} :
          \/ ledger_select(p)
          \/ ledger_update(p)
          \/ ledger_insert(p)
    \/ \E j \in {"j1", "j2"} :
          \/ run_job(j)
          \/ shotstack_post(j)
          \/ schedule_auto_transfer(j)
          \/ return_success(j)
          \/ return_failed(j)

RaceSpec == RaceInit /\ [][RaceNext]_vars

\* ------------------ SubmitSpec: a POST /render and a POST /batch-render
\* request of user u1 served at the same time, up to their answers.
SubmitInit ==
    /\ \E b \in 0..MaxBalance : credit_balance = [u \in {"u1"} |-> b]
    /\ reliable = FALSE
    /\ InitRest

SubmitNext ==
    \/ \E h \in {"h1"} :
          \/ create_render(h)
          \/ create_render_enqueue(h)
          \/ create_render_log(h)
    \/ \E h \in {"h2"} :
          \/ create_batch_render(h)
          \/ batch_enqueue_item(h)
          \/ create_batch_render_consume(h)
          \/ create_batch_render_answer(h)
    \/ \E p \in Handlers :
          \/ ledger_select(p)
          \/ ledger_update(p)
          \/ ledger_insert(p)

SubmitSpec == SubmitInit /\ [][SubmitNext]_vars

\* -------- CollideSpec: POST /render requests whose identifiers may coincide
\* create_render when uuid4 returns a new identifier or one it has returned
\* before.
create_render_any_id(h) == submit(h, used_ids \cup {uuid4})

CollideInit ==
    /\ \E b \in 0..MaxBalance : credit_balance = [u \in {"u1"} |-> b]
    /\ reliable = TRUE
    /\ InitRest

CollideNext ==
    \/ \E h \in Handlers :
          \/ create_render_any_id(h)
          \/ create_render_enqueue(h)
          \/ create_render_log(h)
    \/ \E p \in Handlers :
          \/ ledger_select(p)
          \/ ledger_update(p)
          \/ ledger_insert(p)

CollideSpec == CollideInit /\ [][CollideNext]_vars

\* ------------------------------------------- pricing: extract_total_duration
MaxTracks == 2         \* most tracks in a timeline
MaxClips  == 1         \* most clips in a track

\* The clips of the timelines, times in half seconds.  `start` is a number.
\* `length` is a number (`halves`), or the string "auto" (a string that is
\* no number is measured as "auto" is), or the string "end", or the string
\* "end" in a clip whose asset is not a dict ("asset_not_dict").  `alias`
\* is the alias of the clip and `src` the alias its asset src refers to
\* (alias://<src>), "none" for none; `asset_type` is the type of the asset.
Starts == {0, 1}
NumericLengths == {0, 3}
Clips ==
    {[start |-> st, length |-> "number", halves |-> n, alias |-> "none",
      src |-> "none", asset_type |-> "video"] : st \in Starts, n \in NumericLengths}
    \cup {[start |-> st, length |-> k, halves |-> 0, alias |-> "none",
           src |-> "none", asset_type |-> "video"] :
              st \in Starts, k \in {"auto", "asset_not_dict"}}

\* The tracks: lists of clips.  A track that is not a dict or has no list
\* of clips is skipped as an empty one is.
TrackInputs == UNION {[1..n -> Clips] : n \in 0..MaxClips}

\* The timelines: a value that is not a dict or is empty, a dict without
\* 'tracks', a dict whose 'tracks' is not a list, a dict with a list of
\* tracks.
TimelineInputs ==
    {[shape |-> sh, tracks |-> <<>>] : sh \in {"not_dict", "no_tracks", "tracks_not_list"}}
    \cup {[shape |-> "tracks", tracks |-> t] :
              t \in UNION {[1..n -> TrackInputs] : n \in 0..MaxTracks}}

\* The clips of all tracks in the order the passes go through them.
RECURSIVE all_clips(_)
all_clips(tracks) ==
    IF tracks = <<>> THEN <<>> ELSE Head(tracks) \o all_clips(Tail(tracks))

\* extract_total_duration line 74-111, first pass: whether a clip that has
\* an alias is entered in aliases_map.  A length that is a string other
\* than "auto" makes float() raise and the clip is passed over.
alias_recorded(clip) ==
    clip.alias # "none" /\ clip.length \in {"number", "auto"}

\* The duration the first pass enters for a clip (line 82-110): its
\* length, and for "auto" 10 seconds when the asset is audio, else 5.
alias_duration(clip) ==
    IF clip.length = "number" THEN clip.halves
    ELSE IF clip.asset_type = "audio" THEN 20 ELSE 10

\* A first pass that enters no alias.
aliases_map_empty(clips, alias_ref) == 0 - 1

\* aliases_map[alias_ref]['duration'] after the first pass over the clips,
\* -1 when alias_ref is not in aliases_map: a later clip with the same
\* alias overwrites an earlier one.
RECURSIVE aliases_map(_, _)
aliases_map(clips, alias_ref) ==
    IF clips = <<>> THEN 0 - 1
    ELSE LET last == clips[Len(clips)]
         IN  IF last.alias = alias_ref /\ alias_recorded(last)
             THEN alias_duration(last)
             ELSE aliases_map(SubSeq(clips, 1, Len(clips) - 1), alias_ref)

\* extract_total_duration line 137-186, second pass: the end of a clip, in
\* half seconds.  A number counts as it is; "end" with a reference that is
\* in aliases_map counts the duration entered there; every other length
\* counts 5 seconds.
clip_end(clip, clips) ==
    clip.start +
        (IF clip.length = "number" THEN clip.halves
         ELSE IF clip.length = "end" /\ clip.src # "none"
                 /\ aliases_map(clips, clip.src) >= 0
         THEN aliases_map(clips, clip.src)
         ELSE 10)

\* extract_total_duration line 117-188: max_duration over the clips of the
\* tracks, starting from 0.
RECURSIVE clips_max(_, _)
clips_max(clips, all) ==
    IF clips = <<>> THEN 0
    ELSE LET rest == clips_max(Tail(clips), all)
             end  == clip_end(Head(clips), all)
         IN  IF end > rest THEN end ELSE rest

max_duration(tracks) == clips_max(all_clips(tracks), all_clips(tracks))

\* extract_total_duration line 151-152: asset.get raises when the asset of a
\* clip with length "end" is not a dict.
parse_raises(tracks) ==
    \E t \in 1..Len(tracks) : \E c \in 1..Len(tracks[t]) :
        tracks[t][c].length = "asset_not_dict"

\* extract_total_duration: 0 for a timeline that is not a dict, has no
\* 'tracks' or whose 'tracks' is not a list (line 44-55); 5 when the parse
\* raises (line 197-201); else max_duration rounded up to whole seconds,
\* at least 1 (line 192).
extract_total_duration(timeline) ==
    IF timeline.shape # "tracks" THEN 0
    ELSE IF parse_raises(timeline.tracks) THEN 5
    ELSE LET m     == max_duration(timeline.tracks)
             whole == m \div 2
             total == whole + (IF m # 2 * whole THEN 1 ELSE 0)
         IN  IF total > 1 THEN total ELSE 1

\* create_render line 240: measure the timeline of the request.
measure_timeline(h) ==
    /\ hpc[h] = "idle"
    /\ hreq[h].kind = "single"
    /\ hpc' = [hpc EXCEPT ![h] = "measured"]
    /\ hreq' = [hreq EXCEPT ![h].duration_seconds = extract_total_duration(hreq[h].timeline)]
    /\ UNCHANGED <<ledgerVars, used_ids, queueVars, workerVars, transferVars>>

\* create_render line 241: price the duration measured.
price_duration(h) ==
    /\ hpc[h] = "measured"
    /\ hpc' = [hpc EXCEPT ![h] = "priced"]
    /\ hreq' = [hreq EXCEPT ![h].tokens_needed =
                    calculate_tokens_for_duration(hreq[h].duration_seconds)]
    /\ UNCHANGED <<ledgerVars, used_ids, queueVars, workerVars, transferVars>>

\* - MeasureSpec: extract_total_duration and the price, over the timelines
\* A request that holds one of the timelines is measured and priced.
MeasureInit ==
    /\ credit_balance = [u \in {"u1"} |-> MaxBalance]
    /\ reliable = TRUE
    /\ hpc = [h \in Handlers |-> "idle"]
    /\ \E t \in TimelineInputs :
         hreq = [h \in Handlers |->
                    IF h = "h1" THEN [NoRequest EXCEPT !.kind = "single", !.timeline = t]
                                ELSE NoRequest]
    /\ InitTables

MeasureNext ==
    \E h \in {"h1"} :
        \/ measure_timeline(h)
        \/ price_duration(h)

MeasureSpec == MeasureInit /\ [][MeasureNext]_vars

\* -------- ResolveSpec: extract_total_duration over timelines with aliases
MaxAliasTracks == 2    \* most tracks in a timeline with aliases

\* Clips with and without an alias, times in half seconds: starts at 0 and
\* 5 seconds; lengths of 1.5, 10 and 30 seconds, "auto" with an audio or a
\* video asset, and "end" with no reference, with a reference to alias a
\* and with a reference to alias b, which no clip has.
AliasStarts == {0, 10}
AliasLengths == {3, 20, 60}
AliasClips ==
    {[start |-> st, length |-> "number", halves |-> n, alias |-> al,
      src |-> "none", asset_type |-> "video"] :
          st \in AliasStarts, n \in AliasLengths, al \in {"none", "a"}}
    \cup {[start |-> st, length |-> "auto", halves |-> 0, alias |-> al,
           src |-> "none", asset_type |-> ty] :
              st \in AliasStarts, al \in {"none", "a"}, ty \in {"audio", "video"}}
    \cup {[start |-> st, length |-> "end", halves |-> 0, alias |-> al,
           src |-> ref, asset_type |-> "video"] :
              st \in AliasStarts, al \in {"none", "a"}, ref \in {"none", "a", "b"}}

\* Timelines of one clip per track.
AliasTimelineInputs ==
    {[shape |-> "tracks", tracks |-> t] :
        t \in UNION {[1..n -> [1..1 -> AliasClips]] : n \in 1..MaxAliasTracks}}

ResolveInit ==
    /\ credit_balance = [u \in {"u1"} |-> MaxBalance]
    /\ reliable = TRUE
    /\ hpc = [h \in Handlers |-> "idle"]
    /\ \E t \in AliasTimelineInputs :
         hreq = [h \in Handlers |->
                    IF h = "h1" THEN [NoRequest EXCEPT !.kind = "single", !.timeline = t]
                                ELSE NoRequest]
    /\ InitTables

ResolveSpec == ResolveInit /\ [][MeasureNext]_vars

\* ----------- PriceSpec: calculate_tokens_for_duration over the durations
MaxSeconds == 125      \* longest duration priced

\* A request whose timeline has been measured at one of the durations.
PriceInit ==
    /\ credit_balance = [u \in {"u1"} |-> MaxBalance]
    /\ reliable = TRUE
    /\ hpc = [h \in Handlers |-> IF h = "h1" THEN "measured" ELSE "idle"]
    /\ \E seconds \in 0..MaxSeconds :
         hreq = [h \in Handlers |->
                    IF h = "h1" THEN [NoRequest EXCEPT !.kind = "single",
                                                       !.duration_seconds = seconds]
                                ELSE NoRequest]
    /\ InitTables

PriceNext == \E h \in {"h1"} : price_duration(h)

PriceSpec == PriceInit /\ [][PriceNext]_vars

\* ------- DestinationSpec: POST /render requests with and without destinations
\* Two requests of user u1, each with no destinations, with a destination
\* of another provider or with one of provider googlecloudstorage, up to
\* their answers.  Every store and queue request is served.
DestinationInit ==
    /\ \E b \in 0..MaxBalance : credit_balance = [u \in {"u1"} |-> b]
    /\ reliable = TRUE
    /\ InitRest

DestinationNext ==
    \/ \E h \in Handlers :
          \/ create_render_to(h)
          \/ create_render_enqueue(h)
          \/ create_render_log(h)
    \/ \E p \in Handlers :
          \/ ledger_select(p)
          \/ ledger_update(p)
          \/ ledger_insert(p)

DestinationSpec == DestinationInit /\ [][DestinationNext]_vars

\* --------------------------------------------- job status: get_job_status
\* What the queue holds for job j: its result when the worker is through
\* with it (arq:result:<id>), else the state of its job key.
lifecycle(j) == IF arq_result[j] # "none" THEN arq_result[j] ELSE arq_job[j]

\* get_job_status line 341-388, asked by the authenticated user c for job
\* j: read the key arq:result:<job id>.  No result: status not_found with
\* the error 'Job not found or expired'.  A result that is a dict: its
\* status, 'success' being reported as completed, and its error when the
\* status is failed.  A result that is not a dict (the exception arq stores
\* for a job it gave up): completed.  A read or a parse that raises:
\* unknown.  current_user is not compared with the user_id of the job.
get_job_status(c, j) ==
    /\ \E h \in Handlers : hpc[h] = "accepted" /\ hreq[h].job_id = j
    /\ \E served \in StoreAnswers :
         /\ faulted' = (faulted \/ ~served)
         /\ job_status' = [job_status EXCEPT ![c][j] =
                [answered |-> TRUE,
                 status   |-> IF ~served THEN "unknown"
                              ELSE IF arq_result[j] = "none" THEN "not_found"
                              ELSE IF arq_result[j] = "failed" THEN "failed"
                              ELSE "completed",
                 error    |-> IF ~served THEN "Failed to parse job result"
                              ELSE IF arq_result[j] = "none" THEN "Job not found or expired"
                              ELSE IF arq_result[j] = "failed" THEN "error of the result"
                              ELSE "none",
                 state    |-> lifecycle(j)]]
    /\ UNCHANGED <<books, frame, handlerVars, queueVars, workerVars>>
    /\ UNCHANGED <<tkey, tpc, tresult, attempt, resched, pollers, queried, copyVars, links, batch_videos, batch_status>>

\* ----------- StatusSpec: one POST /render request and its status requests
\* The request h1 of user u1, the worker running its job, which the worker
\* process may die on, and GET /job/{job_id} asked by u1 and by u2 once the
\* identifier has been returned.  Every store, queue and renderer request
\* is served.
StatusInit ==
    /\ \E b \in 1..MaxBalance : credit_balance = [u \in Users |-> b]
    /\ reliable = TRUE
    /\ InitRest

StatusNext ==
    \/ \E h \in {"h1"} :
          \/ create_render(h)
          \/ create_render_enqueue(h)
          \/ create_render_log(h)
    \/ \E p \in {"h1", "j1"} :
          \/ ledger_select(p)
          \/ ledger_update(p)
          \/ ledger_insert(p)
    \/ \E j \in {"j1"} :
          \/ run_job(j)
          \/ shotstack_post(j)
          \/ schedule_auto_transfer(j)
          \/ return_success(j)
          \/ return_failed(j)
          \/ worker_killed(j)
    \/ \E c \in Users : get_job_status(c, "j1")

StatusSpec == StatusInit /\ [][StatusNext]_vars

\* ------------------------------------------- batch status: get_batch_status
\* get_batch_status line 1125-1169, asked for the batch of request h once
\* its identifier has been returned: read the result key of every
\* <batch id>_<index>; a member without a result, with a result that is
\* not a dict, or whose read raises is left out of the list.  completed
\* when every listed member has status success, else in_progress;
\* partial_failure when a listed member has status failed.
get_batch_status(h) ==
    /\ hpc[h] = "accepted"
    /\ hreq[h].kind = "batch"
    /\ LET members == hreq[h].job_ids
       IN  \E served \in (IF reliable THEN {members} ELSE SUBSET members) :
             LET batch_jobs     == {j \in served : arq_result[j] \in {"success", "failed"}}
                 total_jobs     == Cardinality(batch_jobs)
                 completed_jobs == Cardinality({j \in batch_jobs : arq_result[j] = "success"})
                 failed_jobs    == Cardinality({j \in batch_jobs : arq_result[j] = "failed"})
             IN  /\ batch_status' = [batch_status EXCEPT ![h] =
                        [answered       |-> TRUE,
                         batch_status   |-> IF failed_jobs > 0 THEN "partial_failure"
                                            ELSE IF completed_jobs = total_jobs
                                            THEN "completed"
                                            ELSE "in_progress",
                         total_jobs     |-> total_jobs,
                         completed_jobs |-> completed_jobs,
                         failed_jobs    |-> failed_jobs,
                         enqueued       |-> members,
                         waiting        |-> {j \in members : arq_result[j] = "none"}]]
                 /\ faulted' = (faulted \/ served # members)
    /\ UNCHANGED <<books, frame, handlerVars, queueVars, workerVars>>
    /\ UNCHANGED <<tkey, tpc, tresult, attempt, resched, pollers, queried, copyVars,
                   links, batch_videos, job_status>>

\* -------- BatchStatusSpec: one POST /batch-render request and its status
\* The request h2 of user u1, the worker running the jobs of the batch and
\* GET /batch/{batch_id}/status asked once the identifier has been
\* returned.  Every store, queue and renderer request is served.
BatchStatusInit ==
    /\ credit_balance = [u \in {"u1"} |-> MaxBalance]
    /\ reliable = TRUE
    /\ InitRest

BatchStatusNext ==
    \/ \E h \in {"h2"} :
          \/ create_batch_render(h)
          \/ batch_enqueue_item(h)
          \/ create_batch_render_consume(h)
          \/ create_batch_render_answer(h)
          \/ get_batch_status(h)
    \/ \E p \in {"h2"} \cup Jobs :
          \/ ledger_select(p)
          \/ ledger_update(p)
          \/ ledger_insert(p)
    \/ \E j \in Jobs :
          \/ run_job(j)
          \/ shotstack_post(j)
          \/ schedule_auto_transfer(j)
          \/ return_success(j)
          \/ return_failed(j)

BatchStatusSpec == BatchStatusInit /\ [][BatchStatusNext]_vars

\* ------------------------------------------------ transfer to owned storage
max_attempts == 20     \* auto_transfer_when_ready_job: max_attempts
MaxMonth == 2          \* calendar months the clock goes through

\* The statuses the renderer reports for a render, in the order it goes
\* through them; "done" and "failed" are final.
renderer_progress(j) ==
    /\ render_state[j] \in {"rendering", "saving"}
    /\ \E s \in (IF render_state[j] = "rendering" THEN {"saving", "failed"}
                                                  ELSE {"done", "failed"}) :
         render_state' = [render_state EXCEPT ![j] = s]
    /\ UNCHANGED <<ledgerVars, handlerVars, queueVars, wpc, renders, created,
                   transferVars>>

\* The clock passes into the next calendar month.  _generate_gcs_path
\* (destination_service.py line 49-51) and check_video_exists_in_gcs
\* (gcp_sync_service.py line 92-93) build the path of a job's object from
\* the year and month of the clock at the time of the call.
month_rollover ==
    /\ month < MaxMonth
    /\ month' = month + 1
    /\ UNCHANGED <<credit_balance, token_transactions, calls, initial_balance,
                   consumed, added, version, reliable, day, deleted, charged, charges,
                   refunded, refunds>>
    /\ UNCHANGED <<frame, faulted, handlerVars, queueVars, workerVars, transferVars>>

\* A queue that takes every job, whatever is kept under its key.
key_free_always(k, j) == TRUE

\* arq's enqueue_job under a transfer key: dropped when a job or a kept
\* result holds the key.
key_free(k, j) == tkey[k][j] = "none"

\* A transfer job that gives the tokens of the job back when it ends
\* without a copy.
finish_transfer_refunding(k, j, status) ==
    /\ tkey' = [tkey EXCEPT ![k][j] = "kept"]
    /\ tpc' = [tpc EXCEPT ![k][j] = "none"]
    /\ tresult' = [tresult EXCEPT ![k][j] = status]
    /\ IF status \in {"failed", "timeout"}
       THEN ledger_call(j, "add", job_data[j].user_id, 1, j)
       ELSE UNCHANGED frame

\* A transfer job returns: arq stores its result, and the result holds the
\* key.  No return of a transfer job is preceded by a ledger call.
finish_transfer(k, j, status) ==
    /\ tkey' = [tkey EXCEPT ![k][j] = "kept"]
    /\ tpc' = [tpc EXCEPT ![k][j] = "none"]
    /\ tresult' = [tresult EXCEPT ![k][j] = status]
    /\ UNCHANGED frame

\* UsageService.update_render_request(job_id, video_url): every row with
\* the job_id takes the URL.
set_video_url(rows, url) == [i \in 1..Len(rows) |-> [rows[i] EXCEPT !.video_url = url]]

\* The write of the URL by auto_transfer_when_ready_job (line 256-266,
\* 287-297) and by the sweep (gcp_sync_service.py line 122-148): a failed
\* update is logged and ignored.
write_video_url(j, url) ==
    \/ /\ renders' = [renders EXCEPT ![j] = set_video_url(@, url)]
       /\ UNCHANGED faulted
    \/ /\ ~reliable
       /\ faulted' = TRUE
       /\ UNCHANGED renders

\* A backoff of 30 seconds whatever the attempt.
reschedule_delay_flat(next_attempt) == 30

\* reschedule_auto_transfer line 373-379: the delay before the next
\* attempt, chosen by the number of that attempt.
reschedule_delay(next_attempt) ==
    IF next_attempt <= 5 THEN 30
    ELSE IF next_attempt <= 10 THEN 60
    ELSE 120

\* reschedule_auto_transfer: enqueue the next attempt under the key
\* auto_transfer_<job id>, deferred by the delay, and return rescheduled;
\* failed when the enqueue raises.  The job that calls it still holds that
\* key, and the queue drops an enqueue under a key that is held.  An
\* enqueue the queue takes puts a second job of the poller beside the one
\* that is calling.
reschedule_auto_transfer(j, next_attempt) ==
    /\ resched' = [resched EXCEPT ![j] =
           [attempt |-> attempt[j], next_attempt |-> next_attempt,
            delay |-> reschedule_delay(next_attempt)]]
    /\ \/ /\ key_free("auto", j)
          /\ tkey' = [tkey EXCEPT !["auto"][j] = "queued"]
          /\ attempt' = [attempt EXCEPT ![j] = next_attempt]
          /\ tresult' = [tresult EXCEPT !["auto"][j] = "rescheduled"]
          /\ pollers' = [pollers EXCEPT ![j] = IF @ > 2 THEN @ ELSE 2]
          /\ UNCHANGED <<tpc, frame>>
       \/ /\ ~key_free("auto", j)
          /\ finish_transfer("auto", j, "rescheduled")
          /\ UNCHANGED <<attempt, pollers>>
       \/ /\ ~reliable
          /\ finish_transfer("auto", j, "failed")
          /\ UNCHANGED <<attempt, pollers>>

\* A poller that never takes an attempt for the last one.
last_attempt_never(k) == FALSE

\* auto_transfer_when_ready_job line 222, 313, 340: attempt >= max_attempts.
last_attempt(k) == k >= max_attempts

\* What the status request of the poller can come to: 200, another status,
\* or an exception (timeout, transport error, unreadable body).
QueryOutcomes == IF reliable THEN {"200"} ELSE {"200", "non200", "exception"}

\* auto_transfer_when_ready_job line 352-360: an exception of the status
\* request is caught by the handler around the whole job.
query_raised(outcome) == outcome = "exception"

\* auto_transfer_when_ready_job line 311: the statuses taken for a render
\* in progress.
still_processing(render_status) ==
    render_status \in {"queued", "rendering", "processing"}

\* auto_transfer_when_ready_job line 190-246, 311-360: arq starts the job;
\* it asks the renderer for the status of the render.  An exception:
\* failed.  Not 200: failed at the last attempt, else reschedule.  "done":
\* go on to the storage probe.  "queued", "rendering", "processing":
\* timeout at the last attempt, else reschedule.  "failed": failed.  Any
\* other status: failed at the last attempt, else reschedule.
auto_transfer_when_ready_job(j) ==
    /\ tkey["auto"][j] = "queued"
    /\ \E outcome \in QueryOutcomes :
         LET render_status == render_state[j]
         IN
         /\ queried' = [queried EXCEPT ![j] =
                            IF outcome = "200" THEN render_status ELSE outcome]
         /\ IF query_raised(outcome)
            THEN /\ finish_transfer("auto", j, "failed")
                 /\ faulted' = TRUE
                 /\ UNCHANGED <<attempt, resched, pollers>>
            ELSE IF outcome = "200" /\ render_status = "done"
            THEN /\ tkey' = [tkey EXCEPT !["auto"][j] = "running"]
                 /\ tpc' = [tpc EXCEPT !["auto"][j] = "probe"]
                 /\ UNCHANGED <<tresult, attempt, resched, pollers, frame, faulted>>
            ELSE IF outcome = "200" /\ render_status = "failed"
            THEN /\ finish_transfer("auto", j, "failed")
                 /\ UNCHANGED <<attempt, resched, pollers, faulted>>
            ELSE IF last_attempt(attempt[j])
            THEN /\ finish_transfer("auto", j,
                        IF outcome = "200" /\ still_processing(render_status)
                        THEN "timeout" ELSE "failed")
                 /\ faulted' = (faulted \/ outcome # "200")
                 /\ UNCHANGED <<attempt, resched, pollers>>
            ELSE /\ reschedule_auto_transfer(j, attempt[j] + 1)
                 /\ faulted' = (faulted \/ outcome # "200"
                                  \/ tresult'["auto"][j] = "failed")
    /\ UNCHANGED <<books, handlerVars, queueVars, workerVars, copyVars, answerVars>>

\* ensure_video_transferred_job line 78-127: arq starts the job; it asks
\* the renderer for the status; not 200 or not "done" returns pending,
\* "done" goes on to the storage probe.
ensure_video_transferred_job(j) ==
    /\ tkey["ensure"][j] = "queued"
    /\ \E answered \in StoreAnswers :
         /\ faulted' = (faulted \/ ~answered)
         /\ IF answered /\ render_state[j] = "done"
            THEN /\ tkey' = [tkey EXCEPT !["ensure"][j] = "running"]
                 /\ tpc' = [tpc EXCEPT !["ensure"][j] = "probe"]
                 /\ UNCHANGED <<tresult, frame>>
            ELSE finish_transfer("ensure", j, "pending")
    /\ UNCHANGED <<books, handlerVars, queueVars, workerVars>>
    /\ UNCHANGED <<attempt, resched, pollers, queried, copyVars, answerVars>>

\* transfer_video_to_gcs_job line 23-38: arq starts the job; it goes to
\* transfer_to_gcs without looking into the bucket.
transfer_video_to_gcs_job(j) ==
    /\ tkey["transfer"][j] = "queued"
    /\ tkey' = [tkey EXCEPT !["transfer"][j] = "running"]
    /\ tpc' = [tpc EXCEPT !["transfer"][j] = "download"]
    /\ UNCHANGED <<ledgerVars, handlerVars, queueVars, workerVars>>
    /\ UNCHANGED <<tresult, attempt, resched, pollers, queried, copyVars, answerVars>>

\* A probe that takes every object for present.
head_assumed_200(j, served) == TRUE

\* The HEAD request to the public URL of the object, whose path is built
\* with the month of the clock: 200 when the bucket holds the object under
\* that path and the request is served.
head_is_200(j, served) == served /\ month \in gcs_object[j]

\* auto_transfer_when_ready_job line 248-279, ensure_video_transferred_job
\* line 129-146: probe the bucket.  On 200 the auto job writes the URL to
\* the rows of the job and both return completed; on any other status and
\* on any exception (bare except: pass) the job goes on to transfer_to_gcs.
head_probe(k, j) ==
    /\ k \in {"auto", "ensure"}
    /\ tpc[k][j] = "probe"
    /\ found' = IF k = "auto"
                THEN [found EXCEPT ![j] = IF month \in gcs_object[j]
                                          THEN "present" ELSE "absent"]
                ELSE found
    /\ \E served \in StoreAnswers :
         IF head_is_200(j, served)
         THEN /\ finish_transfer(k, j, "completed")
              /\ IF k = "auto" THEN write_video_url(j, month)
                               ELSE UNCHANGED <<renders, faulted>>
         ELSE /\ tpc' = [tpc EXCEPT ![k][j] = "download"]
              /\ faulted' = (faulted \/ ~served)
              /\ UNCHANGED <<tkey, tresult, renders, frame>>
    /\ UNCHANGED <<books, handlerVars, queueVars, wpc, created, render_state>>
    /\ UNCHANGED <<attempt, resched, pollers, queried, gcs_object, downloads, uploads, tpath, answerVars>>

\* transfer_to_gcs line 132-144: generate the path of the object and
\* download the artifact from the renderer's CDN.  A failed download is
\* re-raised and the job returns failed.
transfer_download(k, j) ==
    /\ tpc[k][j] = "download"
    /\ downloads' = [downloads EXCEPT ![k][j] = @ + 1]
    /\ tpath' = [tpath EXCEPT ![k][j] = month]
    /\ \/ /\ tpc' = [tpc EXCEPT ![k][j] = "upload"]
          /\ UNCHANGED <<tkey, tresult, faulted, frame>>
       \/ /\ ~reliable
          /\ faulted' = TRUE
          /\ finish_transfer(k, j, "failed")
    /\ UNCHANGED <<books, handlerVars, queueVars, workerVars>>
    /\ UNCHANGED <<attempt, resched, pollers, queried, gcs_object, uploads, found, answerVars>>

\* transfer_to_gcs line 146-180 and the return of the job: upload the
\* artifact to the bucket under the path generated before the download.
\* Then the auto job writes the URL of that path to the rows and returns
\* completed, the ensure job returns completed, the transfer job returns
\* success.  A failed upload is re-raised and the job returns failed.
transfer_upload(k, j) ==
    /\ tpc[k][j] = "upload"
    /\ \/ /\ uploads' = [uploads EXCEPT ![k][j] = @ + 1]
          /\ gcs_object' = [gcs_object EXCEPT ![j] = @ \cup {tpath[k][j]}]
          /\ finish_transfer(k, j, IF k = "transfer" THEN "success" ELSE "completed")
          /\ IF k = "auto" THEN write_video_url(j, tpath[k][j])
                           ELSE UNCHANGED <<renders, faulted>>
       \/ /\ ~reliable
          /\ faulted' = TRUE
          /\ finish_transfer(k, j, "failed")
          /\ UNCHANGED <<uploads, gcs_object, renders>>
    /\ UNCHANGED <<books, handlerVars, queueVars, wpc, created, render_state>>
    /\ UNCHANGED <<attempt, resched, pollers, queried, downloads, found, tpath, answerVars>>

\* get_video_links line 552-665, for a job whose result is success: ask
\* the renderer for the render.  No 200 from the renderer: an error answer.
\* No URL in the render (it is not done): no video_url, in_progress.  Else
\* probe the bucket; on 200 answer the URL of the probed path, completed;
\* on anything else (bare except) enqueue transfer_video_to_gcs_job under
\* the key transfer_<job id> and answer no video_url, in_progress.  An
\* enqueue that raises ends in the error answer of line 661-665.
get_video_links(j) ==
    /\ arq_result[j] = "success"
    /\ \E answered \in StoreAnswers, served \in StoreAnswers :
         /\ faulted' = (faulted \/ ~answered \/ (render_state[j] = "done" /\ ~served))
         /\ IF ~answered
            THEN /\ links' = [links EXCEPT ![j] = [NoAnswer EXCEPT !.answered = TRUE]]
                 /\ UNCHANGED tkey
            ELSE IF render_state[j] # "done"
            THEN /\ links' = [links EXCEPT ![j] =
                        [answered |-> TRUE, success |-> TRUE, video_url |-> 0,
                         transfer_status |-> "in_progress"]]
                 /\ UNCHANGED tkey
            ELSE IF head_is_200(j, served)
            THEN /\ links' = [links EXCEPT ![j] =
                        [answered |-> TRUE, success |-> TRUE, video_url |-> month,
                         transfer_status |-> "completed"]]
                 /\ UNCHANGED tkey
            ELSE \/ /\ tkey' = IF key_free("transfer", j)
                               THEN [tkey EXCEPT !["transfer"][j] = "queued"]
                               ELSE tkey
                    /\ links' = [links EXCEPT ![j] =
                           [answered |-> TRUE, success |-> TRUE, video_url |-> 0,
                            transfer_status |-> "in_progress"]]
                 \/ /\ ~reliable /\ ~served
                    /\ links' = [links EXCEPT ![j] = [NoAnswer EXCEPT !.answered = TRUE]]
                    /\ UNCHANGED tkey
    /\ UNCHANGED <<books, frame, handlerVars, queueVars, workerVars>>
    /\ UNCHANGED <<tpc, tresult, attempt, resched, pollers, queried, copyVars, batch_videos, job_status, batch_status>>

\* get_batch_videos line 1192-1248, one member of the batch whose result is
\* success: build the URL of the path _generate_gcs_path gives for it,
\* enqueue ensure_video_transferred_job under the key ensure_<job id> and
\* list the member with that URL and transfer_status pending.  The bucket
\* is not looked into.  An enqueue that raises leaves the member out.
get_batch_videos(j) ==
    /\ arq_result[j] = "success"
    /\ \/ /\ tkey' = IF key_free("ensure", j)
                     THEN [tkey EXCEPT !["ensure"][j] = "queued"]
                     ELSE tkey
          /\ batch_videos' = [batch_videos EXCEPT ![j] =
                 [answered |-> TRUE, success |-> TRUE, video_url |-> month,
                  transfer_status |-> "pending"]]
          /\ UNCHANGED faulted
       \/ /\ ~reliable
          /\ batch_videos' = [batch_videos EXCEPT ![j] = [NoAnswer EXCEPT !.answered = TRUE]]
          /\ faulted' = TRUE
          /\ UNCHANGED tkey
    /\ UNCHANGED <<books, frame, handlerVars, queueVars, workerVars>>
    /\ UNCHANGED <<tpc, tresult, attempt, resched, pollers, queried, copyVars, links, job_status, batch_status>>

GCP_SYNC_RETENTION_DAYS == 7   \* config.py: days the sweep looks back

\* find_missing_video_urls: the job has a row with status 'completed' and
\* no video_url, created within the last GCP_SYNC_RETENTION_DAYS days.
missing_video_url(j) ==
    \E i \in 1..Len(renders[j]) :
        /\ renders[j][i].status = "completed"
        /\ renders[j][i].video_url = 0
        /\ renders[j][i].created_at >= day - GCP_SYNC_RETENTION_DAYS

\* check_video_exists_in_gcs: blob.exists() under the path of the month of
\* the clock; an exception counts as not found.
check_video_exists_in_gcs(j, served) == served /\ month \in gcs_object[j]

\* sync_missing_videos, one job of the list: when the bucket holds its
\* object, write the URL to the rows of the job.
sync_missing_videos(j) ==
    /\ missing_video_url(j)
    /\ \E served \in StoreAnswers :
         IF check_video_exists_in_gcs(j, served)
         THEN write_video_url(j, month)
         ELSE /\ faulted' = (faulted \/ ~served)
              /\ UNCHANGED renders
    /\ UNCHANGED <<books, frame, handlerVars, queueVars, wpc, created, render_state,
                   transferVars>>

\* ------------------- TransferSpec: the transfer paths of one rendered job
\* The state render_video_job leaves when the renderer has answered 201
\* for job j1: the success result, the rows of the job, the render and the
\* auto-transfer job in the queue, `attempt` of its payload being
\* first_attempt.
rendered_job_when(first_attempt, requests_served) ==
    /\ credit_balance = [u \in {"u1"} |-> 0]
    /\ reliable = requests_served
    /\ day = 0
    /\ token_transactions = EmptyBag
    /\ frame = [p \in Procs |-> NoFrame]
    /\ calls = 0
    /\ initial_balance = credit_balance
    /\ consumed = [u \in Users |-> 0]
    /\ added = [u \in Users |-> 0]
    /\ version = [u \in Users |-> 0]
    /\ faulted = FALSE
    /\ charged = [j \in Jobs |-> 0]
    /\ charges = [j \in Jobs |-> 0]
    /\ refunded = [j \in Jobs |-> 0]
    /\ refunds = [j \in Jobs |-> 0]
    /\ hpc = [h \in Handlers |-> IF h = "h1" THEN "accepted" ELSE "idle"]
    /\ hreq = [h \in Handlers |-> NoRequest]
    /\ used_ids = {"j1"}
    /\ arq_job = [j \in Jobs |-> "none"]
    /\ job_try = [j \in Jobs |-> 0]
    /\ job_data = [j \in Jobs |-> NoJobData]
    /\ arq_result = [j \in Jobs |-> IF j = "j1" THEN "success" ELSE "none"]
    /\ wpc = [j \in Jobs |-> "none"]
    /\ renders = [j \in Jobs |-> IF j = "j1"
                                 THEN update_rows(<<QueuedRow>>, "completed", TRUE)
                                 ELSE <<>>]
    /\ created = [j \in Jobs |-> IF j = "j1" THEN 1 ELSE 0]
    /\ render_state = [j \in Jobs |-> IF j = "j1" THEN "rendering" ELSE "none"]
    /\ tkey = [k \in Paths |-> [j \in Jobs |->
                  IF k = "auto" /\ j = "j1" THEN "queued" ELSE "none"]]
    /\ tpc = [k \in Paths |-> [j \in Jobs |-> "none"]]
    /\ tresult = [k \in Paths |-> [j \in Jobs |-> "none"]]
    /\ attempt = [j \in Jobs |-> IF j = "j1" THEN first_attempt ELSE 0]
    /\ gcs_object = [j \in Jobs |-> {}]
    /\ downloads = [k \in Paths |-> [j \in Jobs |-> 0]]
    /\ uploads = [k \in Paths |-> [j \in Jobs |-> 0]]
    /\ found = [j \in Jobs |-> "none"]
    /\ month = 1
    /\ deleted = {}
    /\ tpath = [k \in Paths |-> [j \in Jobs |-> 0]]
    /\ resched = [j \in Jobs |-> NoReschedule]
    /\ pollers = [j \in Jobs |-> IF j = "j1" THEN 1 ELSE 0]
    /\ queried = [j \in Jobs |-> "none"]
    /\ links = [j \in Jobs |-> NoAnswer]
    /\ batch_videos = [j \in Jobs |-> NoAnswer]
    /\ job_status = [c \in Users |-> [j \in Jobs |-> NoStatus]]
    /\ batch_status = [h \in Handlers |-> NoBatchStatus]

\* That state in a behaviour whose requests can fail.
rendered_job(first_attempt) == rendered_job_when(first_attempt, FALSE)

\* render_video_job enqueues the auto-transfer job without `attempt` in
\* its payload, which the job reads as 1 (line 197).
TransferInit == rendered_job(1)

\* The steps of the transfer stage for job j.
transfer_stage(j) ==
    \/ renderer_progress(j)
    \/ auto_transfer_when_ready_job(j)
    \/ ensure_video_transferred_job(j)
    \/ transfer_video_to_gcs_job(j)
    \/ get_video_links(j)
    \/ get_batch_videos(j)
    \/ sync_missing_videos(j)
    \/ \E k \in Paths :
          \/ head_probe(k, j)
          \/ transfer_download(k, j)
          \/ transfer_upload(k, j)

TransferNext ==
    \/ month_rollover
    \/ transfer_stage("j1")

TransferSpec == TransferInit /\ [][TransferNext]_vars

\* ------------- PollSpec: the transfer paths, the poller at any attempt
\* auto_transfer_when_ready_job takes `attempt` from its payload; the job
\* is started here with each value reschedule_auto_transfer puts there.
\* The clock stays within one calendar month.
PollInit == \E a \in 1..max_attempts : rendered_job(a)

PollNext == transfer_stage("j1")

PollSpec == PollInit /\ [][PollNext]_vars

\* The worker takes every job that stays in the queue and every job it
\* has started goes on to its next request; the endpoints and the sweep
\* are asked again and again.
PollFairSpec == PollSpec /\ WF_vars(PollNext)

\* --------------- SweepSpec: the poller and the sweep, no client request
\* The auto-transfer job of one rendered job and the hourly run of
\* sync_missing_videos (main.py line 110-111), with no request to the
\* endpoints that list the video.
SweepNext ==
    \/ renderer_progress("j1")
    \/ auto_transfer_when_ready_job("j1")
    \/ head_probe("auto", "j1")
    \/ transfer_download("auto", "j1")
    \/ transfer_upload("auto", "j1")
    \/ sync_missing_videos("j1")

\* The renderer gets on with the render, the worker runs the jobs in its
\* queue to their end, and the scheduler runs the sweep every hour.
SweepInit == \E a \in 1..max_attempts, served \in BOOLEAN : rendered_job_when(a, served)

SweepSpec ==
    /\ SweepInit
    /\ [][SweepNext]_vars
    /\ WF_vars(renderer_progress("j1"))
    /\ WF_vars(auto_transfer_when_ready_job("j1"))
    /\ WF_vars(head_probe("auto", "j1"))
    /\ WF_vars(transfer_download("auto", "j1"))
    /\ WF_vars(transfer_upload("auto", "j1"))
    /\ WF_vars(sync_missing_videos("j1"))

\* ------------------------------------- expiration: ExpirationService
VIDEO_RETENTION_DAYS == 2      \* config.py: days a video is kept
DB_RECORD_CLEANUP_DAYS == 30   \* config.py: days the row of an expired video is kept
MaxDay == 32                   \* days the clock goes through

\* A day goes by.
day_passes ==
    /\ day < MaxDay
    /\ day' = day + 1
    /\ UNCHANGED <<credit_balance, token_transactions, calls, initial_balance,
                   consumed, added, version, reliable, month, deleted, charged,
                   charges, refunded, refunds>>
    /\ UNCHANGED <<frame, faulted, handlerVars, queueVars, workerVars, transferVars>>

\* The update of mark_expired_videos (line 34-39) on the rows of one job:
\* is_expired becomes true in the rows created before now minus the
\* retention period whose is_expired is false.
expire_rows(rows, now) ==
    [i \in 1..Len(rows) |->
        IF rows[i].created_at < now - VIDEO_RETENTION_DAYS /\ ~rows[i].is_expired
        THEN [rows[i] EXCEPT !.is_expired = TRUE]
        ELSE rows[i]]

\* mark_expired_videos, run by the scheduler (main.py line 108) and by
\* POST /expiration/sync: one update of table renders; an exception is
\* caught and reported.
mark_expired_videos ==
    /\ \/ /\ renders' = [j \in Jobs |-> expire_rows(renders[j], day)]
          /\ UNCHANGED faulted
       \/ /\ ~reliable
          /\ faulted' = TRUE
          /\ UNCHANGED renders
    /\ UNCHANGED <<books, frame, handlerVars, queueVars, wpc, created, render_state,
                   transferVars>>

\* A cleanup that deletes the rows marked expired whatever their age.
cleanup_matches_any_age(row, now) == row.is_expired

\* The filter of the delete of cleanup_expired_records (line 99-102):
\* is_expired is true and created_at is before now minus the cleanup days.
cleanup_matches(row, now) ==
    row.is_expired /\ row.created_at < now - DB_RECORD_CLEANUP_DAYS

\* The rows of job j the delete takes.
cleaned(j) ==
    {i \in 1..Len(renders[j]) : cleanup_matches(renders[j][i], day)}

\* cleanup_expired_records, run by the scheduler every day (main.py line
\* 109) with the configured cleanup days: one delete on table renders; an
\* exception is caught and reported.
cleanup_expired_records ==
    /\ \/ /\ renders' = [j \in Jobs |->
                 LET kept(row) == ~cleanup_matches(row, day)
                 IN  SelectSeq(renders[j], kept)]
          /\ deleted' = deleted \cup
                 UNION {{[job |-> j, row |-> renders[j][i], deleted_at |-> day]
                            : i \in cleaned(j)} : j \in Jobs}
          /\ UNCHANGED faulted
       \/ /\ ~reliable
          /\ faulted' = TRUE
          /\ UNCHANGED <<renders, deleted>>
    /\ UNCHANGED <<credit_balance, token_transactions, calls, initial_balance,
                   consumed, added, version, reliable, month, day, charged,
                   charges, refunded, refunds>>
    /\ UNCHANGED <<frame, handlerVars, queueVars, wpc, created, render_state,
                   transferVars>>

\* ---- ExpireSpec: the expiration sweep, the cleanup and the URL writers
\* One rendered job over the days: its auto-transfer job and the
\* missing-URL sweep write to its row while the scheduler runs the
\* expiration sweep and the cleanup.  The month of the object paths is
\* held.
ExpireInit == \E served \in BOOLEAN : rendered_job_when(1, served)

ExpireNext ==
    \/ day_passes
    \/ mark_expired_videos
    \/ cleanup_expired_records
    \/ SweepNext

ExpireSpec == ExpireInit /\ [][ExpireNext]_vars

\* ------------------------------------------------------ claims: the ledger
\* No ledger call is between its first and its last store request.
LedgerQuiet == \A p \in Procs : frame[p].pc \in {"idle", "done"}

\* C1: after any sequence of successful consume_tokens and add_tokens
\* calls on an account, interleaved or not, the balance is the initial
\* balance minus the consumed amounts plus the added amounts.  Stated for
\* the behaviours in which no store request failed.
C1_BalanceEquation ==
    (LedgerQuiet /\ ~faulted) =>
        \A u \in DOMAIN credit_balance :
            credit_balance[u] = initial_balance[u] - consumed[u] + added[u]

\* Two consume_tokens calls that both returned True after reading the same
\* balance of the same user.
BothPassedOnSameBalance(p, q) ==
    /\ p # q
    /\ frame[p].op = "consume" /\ frame[q].op = "consume"
    /\ frame[p].ret = "true" /\ frame[q].ret = "true"
    /\ frame[p].user = frame[q].user
    /\ frame[p].seen = frame[q].seen

\* C2: two concurrent consume_tokens calls of one user never both succeed
\* on the same balance when that balance covers only one of the amounts.
C2_NoDoubleSpend ==
    \A p, q \in Procs :
        BothPassedOnSameBalance(p, q) =>
            frame[p].current_balance >= frame[p].amount + frame[q].amount

\* C3: the stored balance of every account is never negative.
C3_BalanceNonNegative ==
    \A u \in DOMAIN credit_balance : credit_balance[u] >= 0

\* C3 witness: a consume_tokens and an add_tokens call of one user have
\* interleaved (both read the same balance), both returned True, and the
\* account is left at zero.
C3_Witness ==
    \E p, q \in Procs :
        /\ frame[p].op = "consume" /\ frame[q].op = "add"
        /\ frame[p].ret = "true" /\ frame[q].ret = "true"
        /\ frame[p].user = frame[q].user
        /\ frame[p].seen = frame[q].seen
        /\ frame[p].user \in DOMAIN credit_balance
        /\ credit_balance[frame[p].user] = 0

\* ------------------------------------- claims: submission, worker, refunds
\* Every request that submitted job j has been answered.
Answered(j) ==
    \A h \in Handlers : hreq[h].job_id = j => hpc[h] \in {"accepted", "error"}

\* C4: a job the worker has finished was either rendered, with its tokens
\* consumed exactly once and not refunded, or not rendered, with a net
\* charge of zero.  Stated for jobs whose request has been answered.
C4_ConsumedOrRefunded ==
    \A j \in Jobs :
        (arq_result[j] \in {"success", "failed"} /\ Answered(j)) =>
            \/ /\ created[j] > 0
               /\ charges[j] = 1
               /\ charged[j] = job_data[j].tokens_consumed
               /\ refunded[j] = 0
            \/ /\ created[j] = 0
               /\ charged[j] = refunded[j]

\* C5: when the tokens of a job were consumed at submission and no render
\* was created for it, the balance after the worker is through with the job
\* is the balance before the submission.  Stated for the behaviours in
\* which no store or queue request failed.
C5_FullRefundOnFailure ==
    \A j \in Jobs :
        ( /\ arq_result[j] \in {"failed", "abandoned"}
          /\ Answered(j)
          /\ created[j] = 0
          /\ charged[j] = job_data[j].tokens_consumed
          /\ ~faulted ) =>
            credit_balance[job_data[j].user_id] = initial_balance[job_data[j].user_id]

\* C6: at most one refund is credited for a job identifier, however often
\* the queue delivers the job.  Stated for the behaviours in which no store
\* or queue request failed.
C6_AtMostOneRefund ==
    ~faulted => \A j \in Jobs : refunds[j] <= 1

\* C7: the step that answers a request with the insufficient-tokens
\* rejection is the first step of the request and leaves the queue, the
\* ledger and the submission rows as they were.
C7_RejectionHasNoSideEffect ==
    [][\A h \in Handlers :
          (hpc[h] # "rejected" /\ hpc'[h] = "rejected") =>
              /\ hpc[h] = "idle"
              /\ UNCHANGED <<queueVars, used_ids, credit_balance,
                             token_transactions, frame, renders>>]_vars

\* C7 witness: the POST /render request and the POST /batch-render request
\* have both been rejected by an account that holds tokens.
C7_Witness ==
    /\ hpc["h1"] = "rejected" /\ hreq["h1"].kind = "single"
    /\ hpc["h2"] = "rejected" /\ hreq["h2"].kind = "batch"
    /\ credit_balance["u1"] > 0

C9_AtMostOneCopy ==
    ~faulted =>
        \A j \in Jobs :
            /\ downloads["auto"][j] + downloads["transfer"][j] + downloads["ensure"][j] <= 1
            /\ uploads["auto"][j] + uploads["transfer"][j] + uploads["ensure"][j] <= 1

\* C10: when the object of the job is in the bucket at the time the
\* auto-transfer job probes it, the job downloads nothing and uploads
\* nothing, and the result it returns is completed.
C10_ExistingObjectNotCopied ==
    \A j \in Jobs :
        found[j] = "present" =>
            /\ downloads["auto"][j] = 0
            /\ uploads["auto"][j] = 0
            /\ tresult["auto"][j] \in {"none", "completed"}

\* C11: when a video_url is written to a row of a job, the bucket holds the
\* object of the job under that URL; a video_url that is set is never
\* replaced by another; and when the auto-transfer job returns completed
\* the bucket holds an object of the job.  Stated for the behaviours in
\* which no request failed.
C11_UrlConfirmedAndFinal ==
    [][~faulted' => \A j \in Jobs :
          /\ \A i \in 1..Len(renders[j]) :
                /\ renders[j][i].video_url # 0 =>
                       renders'[j][i].video_url = renders[j][i].video_url
                /\ (renders[j][i].video_url = 0 /\ renders'[j][i].video_url # 0) =>
                       renders'[j][i].video_url \in gcs_object'[j]
          /\ (tresult["auto"][j] # "completed" /\ tresult'["auto"][j] = "completed") =>
                 gcs_object'[j] # {}]_vars

C13_BatchUrlOnlyWhenPresent ==
    \A j \in Jobs :
        batch_videos[j].video_url # 0 =>
            batch_videos[j].video_url \in gcs_object[j]

\* The auto-transfer job of j has returned rescheduled.
Rescheduled(j) == tresult["auto"][j] = "rescheduled" /\ resched[j].next_attempt > 0

C15_AttemptsBounded ==
    [][\A j \in Jobs :
          /\ attempt'[j] <= max_attempts
          /\ attempt'[j] # attempt[j] =>
                 attempt'[j] = (IF attempt[j] = 0 THEN 1 ELSE attempt[j] + 1)
          /\ resched'[j] # resched[j] =>
                 /\ resched'[j].attempt = attempt[j]
                 /\ resched'[j].next_attempt = attempt[j] + 1
                 /\ resched'[j].next_attempt <= max_attempts
          /\ ( /\ tkey["auto"][j] = "queued"
               /\ tkey'["auto"][j] # "queued"
               /\ attempt[j] = max_attempts ) =>
                 /\ tresult'["auto"][j] \in {"none", "timeout", "failed"}
                 /\ resched'[j] = resched[j]
                 /\ (render_state[j] \in {"queued", "rendering", "processing"} /\ ~faulted') =>
                        tresult'["auto"][j] = "timeout"]_vars

\* C15 witness: the poller of attempt max_attempts has found the render
\* still rendering and has returned timeout.
C15_Witness ==
    /\ attempt["j1"] = max_attempts
    /\ tresult["auto"]["j1"] = "timeout"
    /\ resched["j1"] = NoReschedule

\* create_batch_render line 833-834: the tokens_consumed of the jobs in
\* job_ids, the jobs the batch request has enqueued.
RECURSIVE enqueued_tokens(_, _)
enqueued_tokens(job_ids, i) ==
    IF i > Len(JobOrder) THEN 0
    ELSE (IF JobOrder[i] \in job_ids THEN job_data[JobOrder[i]].tokens_consumed ELSE 0)
         + enqueued_tokens(job_ids, i + 1)

\* C16: the amount a batch request consumes from the ledger is the sum of
\* the tokens_consumed of the jobs it has enqueued.
C16_ChargedEqualsEnqueued ==
    \A h \in Handlers :
        ( /\ hreq[h].kind = "batch"
          /\ hpc[h] = "batch_consume"
          /\ frame[h].pc = "done"
          /\ frame[h].ret = "true" ) =>
            frame[h].amount = enqueued_tokens(hreq[h].job_ids, 1)

\* C17: in the transfer stage (the auto-transfer poller in every outcome,
\* the transfer jobs, the endpoints that enqueue them and the missing-URL
\* sweep) no balance changes, no transaction is written and no ledger call
\* is made.
C17_TransferLeavesLedger ==
    /\ credit_balance = initial_balance
    /\ token_transactions = EmptyBag
    /\ \A p \in Procs : frame[p] = NoFrame

\* C17 witness: the poller has returned failed, the transfer job has copied
\* the artifact and the sweep has written the URL.
C17_Witness ==
    /\ tresult["auto"]["j1"] = "failed"
    /\ tresult["transfer"]["j1"] = "success"
    /\ renders["j1"][1].video_url # 0

\* C18: a request is answered 'insufficient tokens', and consume_tokens
\* takes its insufficient-funds return, only when the balance of the
\* account is short of the amount.  Stated for a single request, whose
\* rejection leaves the balance where it was read.
C18_InsufficientMeansShort ==
    /\ \A h \in Handlers :
          hpc[h] = "rejected" =>
              get_user_tokens(hreq[h].user, TRUE) < hreq[h].tokens_needed
    /\ \A p \in Procs :
          (frame[p].why = "insufficient" /\ version[frame[p].user] = frame[p].seen) =>
              get_user_tokens(frame[p].user, TRUE) < frame[p].amount

\* C19: when the one ledger call made so far has returned False, every
\* balance is what it was before the call.
C19_FailureCommitsNothing ==
    \A p \in Procs :
        (calls = 1 /\ frame[p].pc = "done" /\ frame[p].ret = "false") =>
            credit_balance = initial_balance

\* C20: the step in which consume_tokens reads a balance that is below its
\* amount ends the call with False and changes neither the balance nor the
\* transaction log.
C20_InsufficientFailsClosed ==
    [][\A p \in Procs :
          ( /\ frame[p].pc = "select"
            /\ frame[p].op = "consume"
            /\ frame'[p] # frame[p]
            /\ get_user_tokens(frame[p].user, TRUE) < frame[p].amount ) =>
              /\ frame'[p].pc = "done"
              /\ frame'[p].ret = "false"
              /\ UNCHANGED <<credit_balance, token_transactions>>]_vars

\* C20 witness: consume_tokens has read a positive balance below its
\* amount and has returned False, and the balance is as it was.
C20_Witness ==
    \E p \in Procs :
        /\ frame[p].op = "consume"
        /\ frame[p].why = "insufficient"
        /\ frame[p].current_balance > 0
        /\ credit_balance = initial_balance
        /\ token_transactions = EmptyBag

\* --------------------------------------------- claims: the transaction log
\* The sum of the amounts of the rows of token_transactions of user u
\* among the distinct rows `rows`, each counted as often as it is stored.
RECURSIVE logged_amount(_, _)
logged_amount(rows, u) ==
    IF rows = {} THEN 0
    ELSE LET r == CHOOSE x \in rows : TRUE
         IN (IF r.user = u THEN r.amount * CopiesIn(r, token_transactions) ELSE 0)
            + logged_amount(rows \ {r}, u)

\* C21: when no ledger call is under way, the balance of every account is
\* its initial balance plus the sum of the amounts logged for the user in
\* token_transactions.  Stated for the behaviours in which no store request
\* failed.
C21_LogReproducesBalance ==
    (LedgerQuiet /\ ~faulted) =>
        \A u \in DOMAIN credit_balance :
            credit_balance[u] =
                initial_balance[u] + logged_amount(BagToSet(token_transactions), u)

\* ----------------------------------------------------- claims: job status
\* C22: the answer of get_job_status for a job whose identifier has been
\* returned gives status queued when the job was in the queue or being
\* run, completed when its result was success, and failed with an error
\* reason when its result was failed.
C22_StatusIsLifecycle ==
    \A c \in Users, j \in Jobs :
        job_status[c][j].answered =>
            /\ job_status[c][j].state \in {"queued", "running"} =>
                   job_status[c][j].status = "queued"
            /\ job_status[c][j].state = "success" =>
                   job_status[c][j].status = "completed"
            /\ job_status[c][j].state = "failed" =>
                   /\ job_status[c][j].status = "failed"
                   /\ job_status[c][j].error # "none"

\* C23: get_job_status gives the state of a job to no user but the one the
\* job belongs to.
C23_OnlyOwnerIsAnswered ==
    \A c \in Users, j \in Jobs :
        (job_status[c][j].answered /\ job_status[c][j].status # "not_found") =>
            job_data[j].user_id = c

\* ---------------------------------------------------- claims: destinations
\* C26: the output destinations of every job in the queue hold a
\* destination of provider googlecloudstorage.
C26_JobCarriesOwnedStorage ==
    \A j \in Jobs :
        arq_job[j] # "none" => "googlecloudstorage" \in job_data[j].destinations

\* --------------------------------------------------------- claims: pricing
\* C24: extract_total_duration returns a positive number of seconds for
\* every timeline, malformed or not.
C24_DurationIsPositive ==
    \A h \in Handlers :
        hpc[h] \in {"measured", "priced"} => hreq[h].duration_seconds > 0

C27_RescheduledRunsAgain ==
    (Rescheduled("j1") /\ resched["j1"].attempt < max_attempts)
        ~> (attempt["j1"] = resched["j1"].attempt + 1)

\* C28: at no time are two auto-transfer jobs of one job in the queue or
\* being run.
C28_OnePollerPerJob ==
    \A j \in Jobs : pollers[j] <= 1

\* C28 witness: the poller of j1 has called reschedule_auto_transfer while
\* it held the key auto_transfer_j1, and one poller is all there has been.
C28_Witness ==
    /\ Rescheduled("j1")
    /\ tkey["auto"]["j1"] = "kept"
    /\ pollers["j1"] = 1

\* ------------------------------------------ claims: the poller's error paths
\* The auto-transfer job of j has returned from the run that made the last
\* status request.
PollerReturned(j) == tkey["auto"][j] = "kept"

\* The poller of j called reschedule_auto_transfer for the next attempt.
CalledReschedule(j) ==
    /\ resched[j].attempt = attempt[j]
    /\ resched[j].next_attempt = attempt[j] + 1
    /\ resched[j].delay = reschedule_delay(attempt[j] + 1)

\* C29: a poller whose status request was answered with a status other
\* than 200 or raised reschedules itself when its attempt is below
\* max_attempts and returns failed, without rescheduling, at max_attempts.
C29_QueryFailureRetries ==
    \A j \in Jobs :
        (PollerReturned(j) /\ queried[j] \in {"non200", "exception"}) =>
            IF attempt[j] < max_attempts
            THEN CalledReschedule(j)
            ELSE tresult["auto"][j] = "failed" /\ resched[j] = NoReschedule

TransferFailed(j) ==
    /\ tresult["auto"][j] = "failed"
    /\ queried[j] \in {"failed", "done"}

\* C31: when the transfer stage of a job ends in a terminal failure (the
\* renderer reports the render failed, or the download or the upload
\* raises), the rows of the job in table renders have status 'failed'.
C31_TransferFailureMarksFailed ==
    \A j \in Jobs :
        TransferFailed(j) =>
            \A i \in 1..Len(renders[j]) : renders[j][i].status = "failed"

\* The row of job j has a storage URL.
UrlWritten(j) == \E i \in 1..Len(renders[j]) : renders[j][i].video_url # 0

\* The auto-transfer job of j ended in timeout or failed with nothing of
\* the job in the bucket, and the renderer has since finished the render.
EndedBeforeCopy(j) ==
    /\ tresult["auto"][j] \in {"timeout", "failed"}
    /\ gcs_object[j] = {}
    /\ render_state[j] = "done"

\* C32: a job whose render was created and whose poller ended in timeout or
\* failed before the artifact was copied gets, once the renderer has
\* finished, its storage URL written to its row by the periodic sweep with
\* no client request.
C32_SweepRecoversUrl == EndedBeforeCopy("j1") ~> UrlWritten("j1")

\* C33: the path of a job's object is a function of the user and the job
\* alone, so the path a probe computes, at any time, is the path under
\* which a copy was made: once the bucket holds an object of a job, the
\* HEAD request of the poller and of the endpoint and the lookup of the
\* sweep, when served, find it (stated for the behaviours in which no
\* request has failed).
C33_PathByUserAndJob ==
    \A j \in Jobs :
        (gcs_object[j] # {} /\ ~faulted) =>
            /\ head_is_200(j, TRUE)
            /\ check_video_exists_in_gcs(j, TRUE)

\* The outcome render_video_job wrote for job j when it returned: the
\* status of its rows and whether they carry the render id.
WorkerOutcome(j) ==
    IF arq_result[j] = "success"
    THEN [status |-> "completed", shotstack_render_id |-> TRUE]
    ELSE [status |-> "failed", shotstack_render_id |-> FALSE]

\* C34: once render_video_job has written its outcome for a job and the
\* handler has inserted the submission row, whichever came first, the row
\* of the job shows the outcome of the worker (status and render id) and
\* not 'queued'; stated for the behaviours in which no request fails.
C34_WorkerOutcomeKept ==
    \A h \in Handlers, j \in Jobs :
        (/\ hpc[h] = "accepted"
         /\ hreq[h].job_id = j
         /\ arq_result[j] \in {"success", "failed"}
         /\ ~faulted)
        => /\ renders[j] # <<>>
           /\ \A i \in 1..Len(renders[j]) :
                 /\ renders[j][i].status = WorkerOutcome(j).status
                 /\ renders[j][i].shotstack_render_id = WorkerOutcome(j).shotstack_render_id

\* C35: add_tokens with a non-negative amount never leaves the account
\* with a lower balance than it had before the call, also when the read of
\* the balance fails: while no consume_tokens call has been made (the
\* handlers are its only callers), no balance is below its initial value.
C35_AddNeverLowers ==
    (\A h \in Handlers : frame[h].op = "none") =>
        \A u \in DOMAIN credit_balance : credit_balance[u] >= initial_balance[u]

\* C36: get_batch_status answers 'completed' only when every member the
\* queue has taken for the batch has finished with success; while a member
\* is still queued or being processed it answers 'in_progress', and with a
\* failed member 'partial_failure'.
C36_BatchStatusOfAllMembers ==
    \A h \in Handlers :
        LET a == batch_status[h] IN
        a.answered =>
            /\ a.batch_status = "completed" =>
                   (a.waiting = {} /\ a.completed_jobs = Cardinality(a.enqueued))
            /\ (a.waiting # {} /\ a.failed_jobs = 0) => a.batch_status = "in_progress"
            /\ a.failed_jobs > 0 => a.batch_status = "partial_failure"

\* C37: the stages of a job are ordered Submission, Render, Transfer: an
\* auto-transfer job is in the queue (or has run) for a job only when the
\* renderer has created a render for it, and never for a job whose
\* render_video_job ended with the result failed.
C37_StagesInOrder ==
    \A j \in Jobs :
        tkey["auto"][j] # "none" =>
            /\ created[j] >= 1
            /\ arq_result[j] # "failed"

\* C38: under any interleaving of the expiration sweep, the cleanup and
\* the writes of the transfer and of the missing-URL sweep, every row the
\* cleanup has deleted was marked expired and created more than
\* DB_RECORD_CLEANUP_DAYS days before its deletion; the expiration sweep
\* sets is_expired only on rows created more than VIDEO_RETENTION_DAYS
\* days ago, and no row leaves the table but by the cleanup.
C38_CleanupOnlyExpiredAndOld ==
    /\ \A r \in deleted :
          /\ r.row.is_expired
          /\ r.deleted_at - r.row.created_at > DB_RECORD_CLEANUP_DAYS
    /\ \A j \in Jobs : \A i \in 1..Len(renders[j]) :
          renders[j][i].is_expired =>
              day - renders[j][i].created_at > VIDEO_RETENTION_DAYS
    /\ Len(renders["j1"]) + Cardinality({r \in deleted : r.job = "j1"}) = 1

\* The cleanup has deleted the row of a job.
C38_Witness == \E r \in deleted : r.job = "j1" /\ renders["j1"] = <<>>

\* The length the claim gives a clip among the clips of a timeline, in half
\* seconds: a number as it is; "end" with a reference to an alias that the
\* first pass has recorded, the duration recorded for it (that of the last
\* clip with the alias whose length is a number or "auto"); every other
\* length the fixed default of 5 seconds.
EffectiveLength(clip, clips) ==
    LET declaring == {i \in 1..Len(clips) :
                        /\ clips[i].alias = clip.src
                        /\ clips[i].length \in {"number", "auto"}}
        referenced == clips[CHOOSE i \in declaring : \A k \in declaring : k <= i]
    IN  IF clip.length = "number" THEN clip.halves
        ELSE IF clip.length = "end" /\ clip.src # "none" /\ declaring # {}
        THEN IF referenced.length = "number" THEN referenced.halves
             ELSE IF referenced.asset_type = "audio" THEN 20 ELSE 10
        ELSE 10

\* The ends of the clips of all tracks of a timeline, in half seconds.
ClipEnds(timeline) ==
    LET clips == all_clips(timeline.tracks)
    IN  {clips[i].start + EffectiveLength(clips[i], clips) : i \in 1..Len(clips)}

\* A timeline the claim is about: a list of tracks with a clip, every asset
\* a dict, every numeric length positive.
WellFormed(timeline) ==
    /\ timeline.shape = "tracks"
    /\ all_clips(timeline.tracks) # <<>>
    /\ \A t \in 1..Len(timeline.tracks) : \A c \in 1..Len(timeline.tracks[t]) :
         LET clip == timeline.tracks[t][c]
         IN  /\ clip.length # "asset_not_dict"
             /\ clip.length = "number" => clip.halves > 0

\* The clip with alias a, start 0 and length 10 seconds, and the clip with
\* length "end" that refers to alias a and starts at 5 seconds.
AliasExample ==
    [shape |-> "tracks",
     tracks |-> << << [start |-> 0, length |-> "number", halves |-> 20, alias |-> "a",
                       src |-> "none", asset_type |-> "video"] >>,
                   << [start |-> 10, length |-> "end", halves |-> 0, alias |-> "none",
                       src |-> "a", asset_type |-> "video"] >> >>]

\* One clip with start 0 and length 30 seconds.
SingleClipExample ==
    [shape |-> "tracks",
     tracks |-> << << [start |-> 0, length |-> "number", halves |-> 60, alias |-> "none",
                       src |-> "none", asset_type |-> "video"] >> >>]

\* C39: for a well-formed timeline extract_total_duration returns the
\* maximum over the clips of all tracks of start + effective length rounded
\* up to the next whole second: the least whole number of seconds that no
\* clip ends after.  A numeric length counts as it is, "end" with a
\* reference to an alias counts the duration recorded for the referenced
\* clip in the first pass, an unresolvable reference counts the fixed
\* default.  One clip with start 0 and length 30 gives 30; a clip with
\* alias a of length 10 and a clip of length "end" that refers to a and
\* starts at 5 give 15.
C39_MaxEndRoundedUp ==
    \A h \in Handlers :
        (hpc[h] \in {"measured", "priced"} /\ WellFormed(hreq[h].timeline)) =>
            LET s == hreq[h].duration_seconds
                ends == ClipEnds(hreq[h].timeline)
            IN  /\ \A e \in ends : e <= 2 * s
                /\ \E e \in ends : 2 * (s - 1) < e
                /\ hreq[h].timeline = SingleClipExample => s = 30
                /\ hreq[h].timeline = AliasExample => s = 15

\* C39 witness: the timeline of the clip with alias a and the clip of
\* length "end" that refers to it has been measured at 15 seconds.
C39_Witness ==
    /\ hpc["h1"] = "measured"
    /\ hreq["h1"].timeline = AliasExample
    /\ hreq["h1"].duration_seconds = 15

====
